---- MODULE Spec2Model ----
(***************************************************************************)
(* Model of the knowledge-base sync path of the document processor:        *)
(*   services/kb_sync_service.py   KBIngestionService (lock, sync, poll)   *)
(* Time is counted in ticks of one polling interval (30 s in the code), so *)
(* time.sleep(check_interval) and time.sleep(interval) both last one tick. *)
(***************************************************************************)
EXTENDS Integers, Sequences, FiniteSets, Bags, TLC

\* ---------------------------------------------------------------- bounds
\* The code's time constants keep their ratio (timeout : max_wait = 1 : 2)
\* and its loop bounds are cut down.
\* _acquire_kb_lock(timeout=3600): the staleness window, in ticks.
timeout == 1
\* _wait_for_kb_lock(max_wait=7200): the overall wait bound, in ticks.
max_wait == 2
\* wait_for_ingestion_job: max_attempts (60 in the code).
max_attempts == 2
\* sync_to_knowledge_base_simple: max_wait_attempts (60 in the code).
max_wait_attempts == 2
\* The clock stops after max_wait + ExtraTime ticks.
ExtraTime == 1
MaxTime == max_wait + ExtraTime

\* Two concurrent callers, each with its own KBIngestionService.
Callers == {1, 2}
\* One inode can sit at the lock path and each caller can keep one more open.
Inodes == {1, 2, 3}
NoFile == 0
NoCaller == 0
\* The external actor that may run a job on the same data source.
Ext == 9
\* Content of a lock file that json.load cannot read: an empty file, or a
\* new record written over a longer old one (os.write does not truncate).
NoStamp == 0 - 1
Garbled == 0 - 2

\* ------------------------------------------------- token-limit pattern
\* A failure reason is a record: isStr tells whether it is a str, words are
\* its whitespace-separated words.
Str(ws) == [isStr |-> TRUE, words |-> ws]
NotAString == [isStr |-> FALSE, words |-> << >>]

Lower(w) ==
    CASE w = "FILE" -> "file"
      [] w = "Token" -> "token"
      [] w = "LIMIT" -> "limit"
      [] OTHER -> w

\* re.compile(r'file\s+([^\s]+)\s+.*token\s+limit', re.IGNORECASE): a word
\* ending in "file", the next word captured, and a later "token" word
\* followed by a word starting with "limit".
EndsWithFile(w) == Lower(w) \in {"file", "profile"}
IsTokenWord(w) == Lower(w) = "token"
StartsWithLimit(w) == Lower(w) \in {"limit", "limits"}

HasTokenLimitFrom(r, j) ==
    \E k \in j..(Len(r) - 1) : IsTokenWord(r[k]) /\ StartsWithLimit(r[k + 1])

MatchStarts(r) ==
    {i \in 1..Len(r) : /\ EndsWithFile(r[i])
                       /\ i + 1 <= Len(r)
                       /\ HasTokenLimitFrom(r, i + 2)}

\* token_error_pattern.search(reason): the leftmost match, or no match.
PatternMatches(r) == MatchStarts(r) # {}
MatchGroup1(r) ==
    LET i == CHOOSE m \in MatchStarts(r) : \A n \in MatchStarts(r) : m <= n
    IN  r[i + 1]

RECURSIVE CollectFailedFilesDup(_, _)
\* The loop without its "not in failed_files_due_to_tokens" test.
CollectFailedFilesDup(reasons, acc) ==
    IF reasons = << >> THEN acc
    ELSE LET reason == Head(reasons)
             acc2 == IF reason.isStr /\ PatternMatches(reason.words)
                     THEN Append(acc, MatchGroup1(reason.words))
                     ELSE acc
         IN  CollectFailedFilesDup(Tail(reasons), acc2)

RECURSIVE CollectFailedFiles(_, _)
\* The loop over failure_reasons of wait_for_ingestion_job, starting from acc.
CollectFailedFiles(reasons, acc) ==
    IF reasons = << >> THEN acc
    ELSE LET reason == Head(reasons)
             acc2 == IF /\ reason.isStr
                        /\ PatternMatches(reason.words)
                        /\ \A n \in 1..Len(acc) :
                               acc[n] # MatchGroup1(reason.words)
                     THEN Append(acc, MatchGroup1(reason.words))
                     ELSE acc
         IN  CollectFailedFiles(Tail(reasons), acc2)

\* ------------------------------------------------ wait_for_ingestion_job
\* A get_ingestion_job response: an error (the call raised) or a status with
\* its failureReasons.
PollError == [ok |-> FALSE, status |-> "error", reasons |-> << >>]
Response(st, rs) == [ok |-> TRUE, status |-> st, reasons |-> rs]

Returned(st, files, msg) ==
    [act |-> "return", status |-> st, failed_files |-> files, message |-> msg]
Raised == [act |-> "raise", status |-> "EXCEPTION", failed_files |-> << >>,
           message |-> << >>]
Sleeps(files) == [act |-> "sleep", status |-> "none", failed_files |-> files,
                  message |-> << >>]

\* A loop body that notes the files of a FAILED job and goes on polling.
PollOutcomeKeepsPolling(resp, failed) ==
    IF ~resp.ok
    THEN IF failed # << >>
         THEN Returned("ERROR_DURING_WAIT", failed, << >>)
         ELSE Raised
    ELSE IF resp.status = "COMPLETE"
    THEN Returned("COMPLETE", failed, << >>)
    ELSE IF resp.status = "FAILED"
    THEN LET files == CollectFailedFiles(resp.reasons, failed)
         IN  IF files # << >>
             THEN Sleeps(files)
             ELSE Returned("FAILED_OTHER_ERROR", << >>, resp.reasons)
    ELSE Sleeps(failed)

\* One iteration of the polling loop: what the loop body does with the
\* response, given failed_files_due_to_tokens collected so far.
PollOutcome(resp, failed) ==
    IF ~resp.ok
    THEN IF failed # << >>
         THEN Returned("ERROR_DURING_WAIT", failed, << >>)
         ELSE Raised
    ELSE IF resp.status = "COMPLETE"
    THEN Returned("COMPLETE", failed, << >>)
    ELSE IF resp.status = "FAILED"
    THEN LET files == CollectFailedFiles(resp.reasons, failed)
         IN  IF files # << >>
             THEN Returned("FAILED_TOKEN_ERROR", files, << >>)
             ELSE Returned("FAILED_OTHER_ERROR", << >>, resp.reasons)
    ELSE Sleeps(failed)

\* The code after the loop: every attempt was used without a return.
TimeoutOutcome(failed) ==
    IF failed # << >>
    THEN Returned("TIMEOUT_TOKEN_ERROR", failed, << >>)
    ELSE Raised

\* ------------------------------------------------------------ the state
VARIABLES
    now,         \* time.time(), in ticks
    path,        \* the inode found at /tmp/kb_locks/kb_<kb_id>.lock, or NoFile
    flockOwner,  \* inode -> the caller whose open file holds flock on it
    stamp,       \* inode -> the 'timestamp' json.load reads from it, or NoStamp
    orphaned,    \* inode -> the process that held flock on it died holding it
    jobOwner,    \* who started the job now running on the data source
    chunked,     \* keys present in CHUNKED_BUCKET
    unprocessed, \* keys present in UNPROCESSED_BUCKET
    pc,          \* caller -> position in its sync call
    entry,       \* caller -> "simple" or "handle": the entry point called
    fd,          \* caller -> the inode its fd refers to (kept in
                 \*           _in_memory_locks[kb_id] once the lock is acquired)
    waitStart,   \* caller -> start_time of _wait_for_kb_lock
    jobStatus,   \* caller -> status of the job it started last
    jobReasons,  \* caller -> failureReasons of that job
    stage,       \* caller -> 1 or 2: which job of the call is polled
    polls,       \* caller -> iterations done of the polling loop
    retries,     \* caller -> iterations done of the conflict loop
    failedFiles, \* caller -> failed_files of the returned wait result
    failed1,     \* caller -> failed_files_initial_sync
    moved,       \* caller -> files_successfully_moved
    result,      \* caller -> status returned by its sync call
    hist,        \* caller -> what happened during the call (for the properties)
    \* one call of wait_for_ingestion_job against an arbitrary service
    wPc,         \* "poll", "sleep", "returned" or "raised"
    wAttempt,    \* iterations begun of the polling loop
    wFailed,     \* failed_files_due_to_tokens
    wSeen,       \* the statuses polled so far ("error": the call raised)
    wReasons,    \* failureReasons of the last response
    wOut,        \* what the call returned or raised
    \* FolderSyncTracker: the state file and the instances that share it
    stateFile,   \* root -> count in sync_state.json (0: no entry)
    fileCounts,  \* instance -> root -> self.file_counts of that instance
    tPc,         \* worker -> position in increment_and_check_sync
    tRoot,       \* worker -> folder_name of its call
    tTmp,        \* worker -> the count it read for +=
    tRet,        \* worker -> how its last call ended
    calls,       \* root -> increment_and_check_sync calls made
    syncs,       \* root -> sync_to_knowledge_base calls made by the tracker
    syncedSince, \* root -> a sync was triggered since its last increment
    bPc,         \* process_folder: "idle", "running" or "done"
    bFolder,     \* process_folder: the folder of the run
    bFiles,      \* process_folder: files processed so far
    \* one run of process_single_file at a time
    pipe,        \* the run: variant, position, counters, effects so far
    pipeRuns,    \* runs handed back to the worker loop
    \* one queue worker and the batch of messages it received
    qVariant,    \* which worker: "parallel", "async", "metrics", "services"
    qPc,         \* "poll", "handling" or "collect"
    qBody,       \* message -> its body (json "none": not in the batch)
    qRun,        \* message -> record -> "none", "running", "syncing", "true",
                 \* "false"
    qHandled,    \* messages of the batch the worker is through with
    qDeleted,    \* messages of the batch deleted from the queue
    \* one caller of FilenameService.clean_filename
    nPc,         \* "idle", "once" (cleaned) or "twice" (the result cleaned again)
    nKey,        \* the key handed to clean_filename
    nOnce,       \* clean_filename(nKey)
    nTwice,      \* clean_filename(nOnce)
    \* the buckets, and the deliveries of the message of one uploaded file
    s3Variant,   \* which pipeline: "none" until the file is uploaded
    s3Key,       \* the key the message names
    s3Source,    \* keys of the objects in the source bucket
    s3Chunks,    \* keys of the chunk objects in the chunk bucket
    s3Sidecars,  \* bag: chunk key -> number of times its sidecar was written
    s3Run,       \* delivery -> the run it started
    \* one document on its way through conversion, watermark removal and OCR
    dVariant,    \* "orchestrator" (process_single_file) or "async"
    dInput,      \* the downloaded file: pages, format, what conversion gives
    dPc,         \* the stage the document is at
    dStream,     \* pdf_stream: the pages the next stage is handed
    dWm,         \* what remove_watermarks returned
    dOcrIn,      \* the pages apply_ocr_to_pdf was handed
    dPending,    \* flagged pages whose OCR task has not finished
    dArrived,    \* the results of the finished OCR tasks, as they finished
    \* one derivation of the metadata of a key, and the chunks made with it
    mImpl,       \* "ec2" (ChunkingService) or "lambda"
    mKey,        \* the key, as its segments
    mPc,         \* "idle", "derived", "raised" or "chunked"
    mOut,        \* the metadata record derived from the key
    mChunks,     \* the chunks of the document: chunk key and metadata
    \* stage 4 of process_single_file_async: the two chunkers
    uPc,         \* "idle", "chunking" or "gathered"
    uKey,        \* file_key: folder and base name
    uOriginal,   \* original_pdf_data: its pages
    uEnhanced,   \* enhanced_pdf_data: its pages, each the page of the
                 \* original it shows
    uDone,       \* the chunking tasks that are done
    uProcessed,  \* processed_chunks
    uDirect      \* direct_chunks

lockVars == <<path, flockOwner, stamp, orphaned>>
storeVars == <<chunked, unprocessed>>
jobVars == <<jobStatus, jobReasons, stage, polls, retries, failedFiles,
             failed1, moved>>
syncVars == <<now, path, flockOwner, stamp, orphaned, jobOwner, chunked,
              unprocessed, pc, entry, fd, waitStart, jobStatus, jobReasons,
              stage, polls, retries, failedFiles, failed1, moved, result, hist>>
waitVars == <<wPc, wAttempt, wFailed, wSeen, wReasons, wOut>>
\* what the actions of the sync calls leave alone
trackVars == <<stateFile, fileCounts, tPc, tRoot, tTmp, tRet, calls, syncs,
               syncedSince, bPc, bFolder, bFiles>>
pipeVars == <<pipe, pipeRuns>>
queueVars == <<qVariant, qPc, qBody, qRun, qHandled, qDeleted>>
nameVars == <<nPc, nKey, nOnce, nTwice>>
\* the services that are called with a value and hand back a value
bucketVars == <<s3Variant, s3Key, s3Source, s3Chunks, s3Sidecars, s3Run>>
docVars == <<dVariant, dInput, dPc, dStream, dWm, dOcrIn, dPending, dArrived>>
metaVars == <<mImpl, mKey, mPc, mOut, mChunks>>
dualVars == <<uPc, uKey, uOriginal, uEnhanced, uDone, uProcessed, uDirect>>
laterVars == <<nameVars, bucketVars, docVars, metaVars, dualVars>>
otherVars == <<waitVars, trackVars, pipeVars, queueVars, laterVars>>
coreVars == <<syncVars, waitVars, trackVars, pipeVars, queueVars>>
vars == <<coreVars, laterVars>>

\* KBMappingConfig
UNPROCESSED_FOLDER == "to_further_process"
\* os.path.basename of the chunk keys of the model
Basename(k) ==
    CASE k = "test/a_page_1.pdf" -> "a_page_1.pdf"
      [] k = "test/b_page_1.pdf" -> "b_page_1.pdf"
      [] OTHER -> k
\* f"{UNPROCESSED_FOLDER}/{os.path.basename(failed_file_key)}"
DestinationKey(k) == <<UNPROCESSED_FOLDER, Basename(k)>>

ChunkKeys == {"test/a_page_1.pdf", "test/b_page_1.pdf"}

\* failureReasons a FAILED job of the data source can report
JobReasonLists ==
    { <<Str(<<"file", "test/a_page_1.pdf", "exceeds", "token", "limit">>)>>,
      <<Str(<<"access", "denied">>)>> }

\* Nothing has happened yet in the call.
\* submitted: jobs started; sawComplete: a job was polled COMPLETE; sawStale:
\* the current _acquire_kb_lock call found the lock stale; unlinkedHeld: the
\* call removed the lock file while another caller held flock on it;
\* startError: the answer of start_ingestion_job whose exception ended the
\* call (the str(e) of the returned message), or "none".
NoHist == [submitted |-> 0, sawComplete |-> FALSE, sawStale |-> FALSE,
           unlinkedHeld |-> FALSE, startError |-> "none"]

InitSync ==
    /\ now = 0
    /\ path = NoFile
    /\ flockOwner = [i \in Inodes |-> NoCaller]
    /\ stamp = [i \in Inodes |-> NoStamp]
    /\ orphaned = [i \in Inodes |-> FALSE]
    /\ jobOwner = NoCaller
    /\ chunked = ChunkKeys
    /\ unprocessed = {}
    /\ pc = [c \in Callers |-> "idle"]
    /\ entry = [c \in Callers |-> "simple"]
    /\ fd = [c \in Callers |-> NoFile]
    /\ waitStart = [c \in Callers |-> 0]
    /\ jobStatus = [c \in Callers |-> "none"]
    /\ jobReasons = [c \in Callers |-> << >>]
    /\ stage = [c \in Callers |-> 1]
    /\ polls = [c \in Callers |-> 0]
    /\ retries = [c \in Callers |-> 0]
    /\ failedFiles = [c \in Callers |-> << >>]
    /\ failed1 = [c \in Callers |-> << >>]
    /\ moved = [c \in Callers |-> << >>]
    /\ result = [c \in Callers |-> "none"]
    /\ hist = [c \in Callers |-> NoHist]

NoOutcome == [act |-> "none", status |-> "none", failed_files |-> << >>,
              message |-> << >>]

InitWait ==
    /\ wPc = "poll"
    /\ wAttempt = 0
    /\ wFailed = << >>
    /\ wSeen = << >>
    /\ wReasons = << >>
    /\ wOut = NoOutcome

\* Three workers: two threads that share one FolderSyncTracker and a worker
\* with a tracker of its own; every tracker reads the same state file.
Workers == {1, 2, 3}
Instances == {1, 2}
InstanceOf(w) == IF w = 3 THEN 2 ELSE 1
Roots == {"test", "Insurance"}
NoCounts == [r \in Roots |-> 0]

\* FolderSyncTracker.__init__ with no state file yet: _load_state returns {}.
InitTrack ==
    /\ stateFile = NoCounts
    /\ fileCounts = [i \in Instances |-> NoCounts]
    /\ tPc = [w \in Workers |-> "idle"]
    /\ tRoot = [w \in Workers |-> "test"]
    /\ tTmp = [w \in Workers |-> 0]
    /\ tRet = [w \in Workers |-> "none"]
    /\ calls = NoCounts
    /\ syncs = NoCounts
    /\ syncedSince = [r \in Roots |-> FALSE]
    /\ bPc = "idle"
    /\ bFolder = "test"
    /\ bFiles = 0

\* No run of process_single_file is under way.
IdlePipe ==
    [variant |-> "orchestrator", conv |-> FALSE, pc |-> "idle", attempt |-> 0,
     chunks |-> 0, idx |-> 0, ok |-> 0, log |-> << >>, result |-> "none",
     why |-> "none", gets |-> << >>]

InitPipe ==
    /\ pipe = IdlePipe
    /\ pipeRuns = 0

\* Messages of one receive_message answer, and records of one message.
MaxMsgs == 2
MaxRecords == 2
Msgs == 1 .. MaxMsgs
NoBody == [json |-> "none", records |-> << >>]
NoRuns == [m \in Msgs |-> [i \in 1 .. MaxRecords |-> "none"]]

\* The worker is about to poll the queue.
InitQueue ==
    /\ qVariant = "parallel"
    /\ qPc = "poll"
    /\ qBody = [m \in Msgs |-> NoBody]
    /\ qRun = NoRuns
    /\ qHandled = {}
    /\ qDeleted = {}

\* Longest file name handed to clean_filename.
MaxNameLen == 4
\* The characters of a file name: letters of the removed term in both cases,
\* a digit, a blank, an underscore, a straight quote, brackets, parentheses
\* and one character outside ASCII (a right single quotation mark).
Chars == {"T", "M", "I", "t", "1", " ", "_", "'", "[", "]", "(", ")", "rsquo"}
Names == UNION {[1 .. n -> Chars] : n \in 0 .. MaxNameLen}
Dirs == {"", "test"}
NameKeys == [dir : Dirs, name : Names]
NoKey == [dir |-> "", name |-> << >>]

\* Nothing has been cleaned yet.
InitName ==
    /\ nPc = "idle"
    /\ nKey = NoKey
    /\ nOnce = NoKey
    /\ nTwice = NoKey

\* Pages of the uploaded file, and deliveries of its message.
MaxPages == 2
MaxDeliveries == 2
Deliveries == 1 .. MaxDeliveries
IdleRun ==
    [pc |-> "idle", key |-> NoKey, cleaned |-> NoKey, data |-> FALSE,
     page |-> 0, ok |-> 0, ret |-> "none"]

\* Nothing has been uploaded, both buckets are empty.
InitBucket ==
    /\ s3Variant = "none"
    /\ s3Key = NoKey
    /\ s3Source = {}
    /\ s3Chunks = {}
    /\ s3Sidecars = EmptyBag
    /\ s3Run = [w \in Deliveries |-> IdleRun]

\* Pages of a document.
MaxDocPages == 3
NoResult == [stream |-> "None", list |-> << >>]
NoInput == [pages |-> << >>, format |-> "pdf", conv |-> "ok"]

\* No document is being processed.
InitDoc ==
    /\ dVariant = "orchestrator"
    /\ dInput = NoInput
    /\ dPc = "idle"
    /\ dStream = << >>
    /\ dWm = NoResult
    /\ dOcrIn = << >>
    /\ dPending = {}
    /\ dArrived = << >>

\* Segments of a key.
MaxSegments == 8
Absent == "(absent)"
NoUri == [bucket |-> Absent, dir |-> << >>, name |-> Absent, page |-> 0]
NoMeta ==
    [standard_type |-> Absent, Standard_type |-> Absent,
     complexity |-> Absent, country |-> Absent, volume |-> Absent,
     document_type |-> Absent, document_category |-> Absent,
     document_sub_category |-> Absent, State |-> Absent,
     State_category |-> Absent, year |-> Absent, document_name |-> Absent,
     page_number |-> 0, total_pages |-> 0, chunk_s3_uri |-> NoUri]

\* No key has been looked at.
InitMeta ==
    /\ mImpl = "ec2"
    /\ mKey = << >>
    /\ mPc = "idle"
    /\ mOut = NoMeta
    /\ mChunks = << >>

\* Pages of the document handed to the two chunkers.
MaxDualPages == 3

\* No document is at stage 4.
InitDual ==
    /\ uPc = "idle"
    /\ uKey = [dir |-> << >>, name |-> << >>]
    /\ uOriginal = << >>
    /\ uEnhanced = << >>
    /\ uDone = {}
    /\ uProcessed = << >>
    /\ uDirect = << >>

Init ==
    /\ InitSync /\ InitWait /\ InitTrack /\ InitPipe /\ InitQueue
    /\ InitName /\ InitBucket /\ InitDoc /\ InitMeta /\ InitDual

\* --------------------------------------------------------- the lock file
\* An inode is in use while it is at the path or some fd refers to it.
InUse(i, p, f) == i = p \/ \E c \in Callers : f[c] = i
\* The content of an inode nothing refers to is gone.
Forget(st, p, f) == [i \in Inodes |-> IF InUse(i, p, f) THEN st[i] ELSE NoStamp]
ForgetFlag(fl, p, f) == [i \in Inodes |-> IF InUse(i, p, f) THEN fl[i] ELSE FALSE]
FreshInode ==
    CHOOSE i \in Inodes :
        /\ ~InUse(i, path, fd)
        /\ \A j \in Inodes : ~InUse(j, path, fd) => i <= j

\* A caller holds the lock when flock succeeded on its fd and the fd is not
\* closed yet.
Holds(c) == \E i \in Inodes : flockOwner[i] = c

\* time.sleep() of a caller ends when the clock has advanced.
Woken(p) ==
    [c \in Callers |->
        CASE p[c] = "wait_sleep" -> "wait_woke"
          [] p[c] = "conf_sleep" -> "retry"
          [] p[c] = "poll_sleep" -> "poll"
          [] OTHER -> p[c]]

Tick ==
    /\ now < MaxTime
    /\ now' = now + 1
    /\ pc' = Woken(pc)
    /\ UNCHANGED otherVars
    /\ UNCHANGED <<lockVars, jobOwner, storeVars, entry, fd, waitStart,
                   jobVars, result, hist>>

\* A sync call begins: sync_to_knowledge_base_simple or
\* sync_and_handle_failed_files, up to the first attempt of _wait_for_kb_lock
\* (start_time = time.time(); the loop test holds at once).
StartSync(c, e) ==
    /\ pc[c] \in {"idle", "done"}
    /\ pc' = [pc EXCEPT ![c] = "acq_open"]
    /\ entry' = [entry EXCEPT ![c] = e]
    /\ waitStart' = [waitStart EXCEPT ![c] = now]
    /\ jobStatus' = [jobStatus EXCEPT ![c] = "none"]
    /\ jobReasons' = [jobReasons EXCEPT ![c] = << >>]
    /\ stage' = [stage EXCEPT ![c] = 1]
    /\ polls' = [polls EXCEPT ![c] = 0]
    /\ retries' = [retries EXCEPT ![c] = 0]
    /\ failedFiles' = [failedFiles EXCEPT ![c] = << >>]
    /\ failed1' = [failed1 EXCEPT ![c] = << >>]
    /\ moved' = [moved EXCEPT ![c] = << >>]
    /\ result' = [result EXCEPT ![c] = "none"]
    /\ hist' = [hist EXCEPT ![c] = NoHist]
    /\ UNCHANGED otherVars
    /\ UNCHANGED <<now, lockVars, jobOwner, storeVars, fd>>

\* After time.sleep(check_interval):
\* while time.time() - start_time < max_wait: ... else return False, and the
\* entry point returns LOCK_TIMEOUT.
WaitCheck(c) ==
    /\ pc[c] = "wait_woke"
    /\ IF now - waitStart[c] < max_wait
       THEN /\ pc' = [pc EXCEPT ![c] = "acq_open"]
            /\ hist' = [hist EXCEPT ![c].sawStale = FALSE]
            /\ UNCHANGED <<result, waitStart>>
       ELSE /\ pc' = [pc EXCEPT ![c] = "done"]
            /\ result' = [result EXCEPT ![c] = "LOCK_TIMEOUT"]
            /\ waitStart' = [waitStart EXCEPT ![c] = 0]
            /\ UNCHANGED hist
    /\ UNCHANGED otherVars
    /\ UNCHANGED <<now, lockVars, jobOwner, storeVars, entry, fd, jobVars>>

\* fd = os.open(lock_file, os.O_CREAT | os.O_RDWR)
AcqOpen(c) ==
    /\ pc[c] = "acq_open"
    /\ IF path = NoFile
       THEN /\ path' = FreshInode
            /\ fd' = [fd EXCEPT ![c] = FreshInode]
       ELSE /\ fd' = [fd EXCEPT ![c] = path]
            /\ UNCHANGED path
    /\ pc' = [pc EXCEPT ![c] = "acq_flock"]
    /\ UNCHANGED otherVars
    /\ UNCHANGED <<now, flockOwner, stamp, orphaned, jobOwner, storeVars,
                   entry, waitStart, jobVars, result, hist>>

\* The acquire with the IOError of flock swallowed: it goes on to write the
\* lock record and returns True.
AcqFlockIgnoresFailure(c) ==
    /\ pc[c] = "acq_flock"
    /\ flockOwner' = IF flockOwner[fd[c]] = NoCaller
                     THEN [flockOwner EXCEPT ![fd[c]] = c]
                     ELSE flockOwner
    /\ pc' = [pc EXCEPT ![c] = "acq_write"]
    /\ UNCHANGED otherVars
    /\ UNCHANGED <<now, path, stamp, orphaned, jobOwner, storeVars, entry, fd,
                   waitStart, jobVars, result, hist>>

\* fcntl.flock(fd, LOCK_EX | LOCK_NB); on IOError: os.close(fd)
AcqFlock(c) ==
    /\ pc[c] = "acq_flock"
    /\ IF flockOwner[fd[c]] = NoCaller
       THEN /\ flockOwner' = [flockOwner EXCEPT ![fd[c]] = c]
            /\ pc' = [pc EXCEPT ![c] = "acq_write"]
            /\ UNCHANGED <<fd, stamp, orphaned>>
       ELSE /\ fd' = [fd EXCEPT ![c] = NoFile]
            /\ stamp' = Forget(stamp, path, fd')
            /\ orphaned' = ForgetFlag(orphaned, path, fd')
            /\ pc' = [pc EXCEPT ![c] = "acq_read"]
            /\ UNCHANGED flockOwner
    /\ UNCHANGED otherVars
    /\ UNCHANGED <<now, path, jobOwner, storeVars, entry, waitStart, jobVars,
                   result, hist>>

\* os.write(fd, json.dumps(lock_info)); os.fsync(fd);
\* self._in_memory_locks[kb_id] = {'fd': fd, ...}; return True.
\* The write starts at offset 0 and does not truncate: over an older record
\* the file may end with the tail of that record.
AcqWrite(c) ==
    /\ pc[c] = "acq_write"
    /\ \E t \in {now} \cup (IF stamp[fd[c]] = NoStamp THEN {} ELSE {Garbled}) :
           stamp' = [stamp EXCEPT ![fd[c]] = t]
    /\ orphaned' = [orphaned EXCEPT ![fd[c]] = FALSE]
    /\ waitStart' = [waitStart EXCEPT ![c] = 0]
    /\ pc' = [pc EXCEPT ![c] = "start"]
    /\ UNCHANGED otherVars
    /\ UNCHANGED <<now, path, flockOwner, jobOwner, storeVars, entry, fd,
                   jobVars, result, hist>>

\* The staleness test with >= in place of >.
AcqReadInclusive(c) ==
    /\ pc[c] = "acq_read"
    /\ IF path # NoFile /\ stamp[path] >= 0 /\ now - stamp[path] >= timeout
       THEN /\ pc' = [pc EXCEPT ![c] = "acq_remove"]
            /\ hist' = [hist EXCEPT ![c].sawStale = TRUE]
       ELSE /\ pc' = [pc EXCEPT ![c] = "wait_sleep"]
            /\ UNCHANGED hist
    /\ UNCHANGED otherVars
    /\ UNCHANGED <<now, lockVars, jobOwner, storeVars, entry, fd, waitStart,
                   jobVars, result>>

\* with open(lock_file, 'r') as f: lock_data = json.load(f);
\* if time.time() - lock_data.get('timestamp', 0) > timeout: ...
\* any exception: pass; return False, and time.sleep(check_interval) begins
AcqRead(c) ==
    /\ pc[c] = "acq_read"
    /\ IF path # NoFile /\ stamp[path] >= 0 /\ now - stamp[path] > timeout
       THEN /\ pc' = [pc EXCEPT ![c] = "acq_remove"]
            /\ hist' = [hist EXCEPT ![c].sawStale = TRUE]
       ELSE /\ pc' = [pc EXCEPT ![c] = "wait_sleep"]
            /\ UNCHANGED hist
    /\ UNCHANGED otherVars
    /\ UNCHANGED <<now, lockVars, jobOwner, storeVars, entry, fd, waitStart,
                   jobVars, result>>

\* os.remove(lock_file); return self._acquire_kb_lock(kb_id, timeout)
AcqRemove(c) ==
    /\ pc[c] = "acq_remove"
    /\ IF path = NoFile
       THEN /\ pc' = [pc EXCEPT ![c] = "wait_sleep"]
            /\ UNCHANGED <<path, stamp, orphaned, hist>>
       ELSE /\ path' = NoFile
            /\ stamp' = Forget(stamp, NoFile, fd)
            /\ orphaned' = ForgetFlag(orphaned, NoFile, fd)
            /\ hist' = [hist EXCEPT ![c].unlinkedHeld =
                            @ \/ flockOwner[path] \notin {NoCaller, c}]
            /\ pc' = [pc EXCEPT ![c] = "acq_open"]
    /\ UNCHANGED otherVars
    /\ UNCHANGED <<now, flockOwner, jobOwner, storeVars, entry, fd, waitStart,
                   jobVars, result>>

\* _release_kb_lock: pop the entry, fcntl.flock(fd, LOCK_UN), os.close(fd)
RelUnlock(c) ==
    /\ pc[c] = "rel_unlock"
    /\ IF fd[c] # NoFile
       THEN /\ flockOwner' = [flockOwner EXCEPT ![fd[c]] = NoCaller]
            /\ fd' = [fd EXCEPT ![c] = NoFile]
            /\ stamp' = Forget(stamp, path, fd')
            /\ orphaned' = ForgetFlag(orphaned, path, fd')
            /\ pc' = [pc EXCEPT ![c] = "rel_unlink"]
       ELSE /\ pc' = [pc EXCEPT ![c] = "done"]
            /\ UNCHANGED <<flockOwner, fd, stamp, orphaned>>
    /\ UNCHANGED otherVars
    /\ UNCHANGED <<now, path, jobOwner, storeVars, entry, waitStart, jobVars,
                   result, hist>>

\* _release_kb_lock: if os.path.exists(lock_file): os.remove(lock_file)
RelUnlink(c) ==
    /\ pc[c] = "rel_unlink"
    /\ IF path # NoFile
       THEN /\ path' = NoFile
            /\ stamp' = Forget(stamp, NoFile, fd)
            /\ orphaned' = ForgetFlag(orphaned, NoFile, fd)
            /\ hist' = [hist EXCEPT ![c].unlinkedHeld =
                            @ \/ flockOwner[path] \notin {NoCaller, c}]
       ELSE UNCHANGED <<path, stamp, orphaned, hist>>
    /\ pc' = [pc EXCEPT ![c] = "done"]
    /\ UNCHANGED otherVars
    /\ UNCHANGED <<now, flockOwner, jobOwner, storeVars, entry, fd, waitStart,
                   jobVars, result>>

\* ------------------------------------------------- the ingestion-job API
\* What start_ingestion_job can answer: the data source runs one job at a time.
StartOutcomes ==
    IF jobOwner = NoCaller THEN {"ok", "error"} ELSE {"conflict", "error"}

\* response['ingestionJob']['ingestionJobId'] was obtained: polling begins.
Submitted(c) ==
    /\ pc' = [pc EXCEPT ![c] = "poll"]
    /\ jobOwner' = c
    /\ jobStatus' = [jobStatus EXCEPT ![c] = "IN_PROGRESS"]
    /\ jobReasons' = [jobReasons EXCEPT ![c] = << >>]
    /\ polls' = [polls EXCEPT ![c] = 0]
    /\ retries' = [retries EXCEPT ![c] = 0]
    /\ hist' = [hist EXCEPT ![c].submitted = @ + 1]
    /\ UNCHANGED <<failedFiles, result, stage, failed1, moved>>

\* time.sleep(30) of the conflict loop begins, n iterations are done.
ConflictSleep(c, n) ==
    /\ pc' = [pc EXCEPT ![c] = "conf_sleep"]
    /\ retries' = [retries EXCEPT ![c] = n]
    /\ UNCHANGED <<jobOwner, jobStatus, jobReasons, polls, failedFiles, result,
                   hist, stage, failed1, moved>>

\* The try block without its finally clause: the call ends at once.
FinishWithoutRelease(c, r, h, files) ==
    /\ pc' = [pc EXCEPT ![c] = "done"]
    /\ result' = [result EXCEPT ![c] = r]
    /\ hist' = [hist EXCEPT ![c] = h]
    /\ failedFiles' = [failedFiles EXCEPT ![c] = files]
    /\ jobOwner' = IF jobOwner = c THEN Ext ELSE jobOwner
    /\ polls' = [polls EXCEPT ![c] = 0]
    /\ retries' = [retries EXCEPT ![c] = 0]
    /\ UNCHANGED <<jobStatus, jobReasons, stage, failed1, moved>>

\* The try block is left with status r (a return, or an exception that the
\* entry point re-raises or turns into a status): the finally clause is next.
\* A job the caller leaves running goes on without it.
Finish(c, r, h, files) ==
    /\ pc' = [pc EXCEPT ![c] = "rel_unlock"]
    /\ result' = [result EXCEPT ![c] = r]
    /\ hist' = [hist EXCEPT ![c] = h]
    /\ failedFiles' = [failedFiles EXCEPT ![c] = files]
    /\ jobOwner' = IF jobOwner = c THEN Ext ELSE jobOwner
    /\ polls' = [polls EXCEPT ![c] = 0]
    /\ retries' = [retries EXCEPT ![c] = 0]
    /\ UNCHANGED <<jobStatus, jobReasons, stage, failed1, moved>>

\* The status an exception of the current step ends the call with.
RaiseStatus(c) ==
    IF entry[c] = "simple" THEN "EXCEPTION"
    ELSE IF stage[c] = 1 THEN "Error"
    ELSE "Completed with Errors and Unprocessed Files"

\* self.bedrock_client.start_ingestion_job(...): the first submission of
\* sync_to_knowledge_base_simple, job 1 and job 2 of
\* sync_and_handle_failed_files.
\* The service answers with one of outs.
StartWith(c, outs) ==
    /\ pc[c] = "start"
    /\ \E o \in outs :
        IF o = "ok" THEN Submitted(c)
        ELSE IF o = "conflict" /\ entry[c] = "simple" THEN ConflictSleep(c, 0)
        ELSE Finish(c, RaiseStatus(c), [hist[c] EXCEPT !.startError = o], << >>)
    /\ UNCHANGED otherVars
    /\ UNCHANGED <<now, lockVars, storeVars, entry, fd, waitStart>>

Start(c) == StartWith(c, StartOutcomes)
\* The submission while the service is down: every call raises.
StartRejected(c) == StartWith(c, {"error"})

\* for wait_attempt in range(max_wait_attempts): time.sleep(30) has elapsed,
\* start_ingestion_job again; for-else: return TIMEOUT
Retry(c) ==
    /\ pc[c] = "retry"
    /\ \E o \in StartOutcomes :
        IF o = "ok" THEN Submitted(c)
        ELSE IF o = "conflict"
        THEN IF retries[c] + 1 < max_wait_attempts
             THEN ConflictSleep(c, retries[c] + 1)
             ELSE Finish(c, "TIMEOUT", hist[c], << >>)
        ELSE Finish(c, "EXCEPTION", [hist[c] EXCEPT !.startError = o], << >>)
    /\ UNCHANGED otherVars
    /\ UNCHANGED <<now, lockVars, storeVars, entry, fd, waitStart>>

\* wait_for_ingestion_job returned out: what the entry point does next.
AfterWait(c, out) ==
    LET h == [hist[c] EXCEPT !.sawComplete = @ \/ out.status = "COMPLETE"]
    IN  IF entry[c] = "simple"
        THEN Finish(c, out.status, h, out.failed_files)
        ELSE IF stage[c] = 1
        THEN /\ failed1' = [failed1 EXCEPT ![c] = out.failed_files]
             /\ moved' = [moved EXCEPT ![c] =
                   [n \in 1..Len(out.failed_files) |->
                       DestinationKey(out.failed_files[n])]]
             /\ stage' = [stage EXCEPT ![c] = 2]
             /\ pc' = [pc EXCEPT ![c] = "start"]
             /\ hist' = [hist EXCEPT ![c] = h]
             /\ polls' = [polls EXCEPT ![c] = 0]
             /\ UNCHANGED <<jobOwner, jobStatus, jobReasons, retries,
                            failedFiles, result>>
        ELSE Finish(c, IF moved[c] # << >>
                       THEN "Completed with Failed Files"
                       ELSE "COMPLETE", h, << >>)

\* The outcome out of the polling loop or of the code after it.
AfterPoll(c, out) ==
    IF out.act = "return" THEN AfterWait(c, out)
    ELSE Finish(c, RaiseStatus(c), hist[c], << >>)

\* One iteration of the loop of wait_for_ingestion_job (get_ingestion_job,
\* the status tests, time.sleep(interval) begins), or the code after the
\* loop when max_attempts iterations are done.
Poll(c) ==
    /\ pc[c] = "poll"
    /\ IF polls[c] < max_attempts
       THEN \E resp \in {PollError, Response(jobStatus[c], jobReasons[c])} :
              LET out == PollOutcome(resp, << >>)
              IN  IF out.act = "sleep"
                  THEN /\ pc' = [pc EXCEPT ![c] = "poll_sleep"]
                       /\ polls' = [polls EXCEPT ![c] = @ + 1]
                       /\ UNCHANGED <<jobOwner, jobStatus, jobReasons, retries,
                                      failedFiles, result, hist, stage,
                                      failed1, moved>>
                  ELSE AfterPoll(c, out)
       ELSE AfterPoll(c, TimeoutOutcome(<< >>))
    /\ UNCHANGED otherVars
    /\ UNCHANGED <<now, lockVars, storeVars, entry, fd, waitStart>>

\* The service ends the job of caller c: COMPLETE, or FAILED with reasons.
JobFinish(c) ==
    /\ jobOwner = c
    /\ jobOwner' = NoCaller
    /\ \/ /\ jobStatus' = [jobStatus EXCEPT ![c] = "COMPLETE"]
          /\ UNCHANGED jobReasons
       \/ \E rs \in JobReasonLists :
             /\ jobStatus' = [jobStatus EXCEPT ![c] = "FAILED"]
             /\ jobReasons' = [jobReasons EXCEPT ![c] = rs]
    /\ UNCHANGED otherVars
    /\ UNCHANGED <<now, lockVars, storeVars, pc, entry, fd, waitStart, stage,
                   polls, retries, failedFiles, failed1, moved, result, hist>>

\* An external actor starts a job on the data source.
ExtStart ==
    /\ jobOwner = NoCaller
    /\ jobOwner' = Ext
    /\ UNCHANGED otherVars
    /\ UNCHANGED <<now, lockVars, storeVars, pc, entry, fd, waitStart,
                   jobVars, result, hist>>

\* A job that no caller polls ends.
ExtFinish ==
    /\ jobOwner = Ext
    /\ jobOwner' = NoCaller
    /\ UNCHANGED otherVars
    /\ UNCHANGED <<now, lockVars, storeVars, pc, entry, fd, waitStart,
                   jobVars, result, hist>>

\* The process of caller c dies in the middle of a sync: the kernel closes
\* its fds, which drops its flock; the lock file stays where it is. The
\* process is restarted with a new KBIngestionService.
Crash(c) ==
    /\ pc[c] \notin {"idle", "done"}
    /\ pc' = [pc EXCEPT ![c] = "idle"]
    /\ flockOwner' = [i \in Inodes |->
                         IF flockOwner[i] = c THEN NoCaller ELSE flockOwner[i]]
    /\ fd' = [fd EXCEPT ![c] = NoFile]
    /\ stamp' = Forget(stamp, path, fd')
    /\ orphaned' = ForgetFlag([i \in Inodes |-> orphaned[i] \/ flockOwner[i] = c],
                              path, fd')
    /\ jobOwner' = IF jobOwner = c THEN Ext ELSE jobOwner
    /\ waitStart' = [waitStart EXCEPT ![c] = 0]
    /\ jobStatus' = [jobStatus EXCEPT ![c] = "none"]
    /\ jobReasons' = [jobReasons EXCEPT ![c] = << >>]
    /\ stage' = [stage EXCEPT ![c] = 1]
    /\ polls' = [polls EXCEPT ![c] = 0]
    /\ retries' = [retries EXCEPT ![c] = 0]
    /\ failedFiles' = [failedFiles EXCEPT ![c] = << >>]
    /\ failed1' = [failed1 EXCEPT ![c] = << >>]
    /\ moved' = [moved EXCEPT ![c] = << >>]
    /\ result' = [result EXCEPT ![c] = "none"]
    /\ hist' = [hist EXCEPT ![c] = NoHist]
    /\ UNCHANGED otherVars
    /\ UNCHANGED <<now, path, storeVars, entry>>

\* One caller runs every entry point against the service, an external actor
\* and the clock; a rival contends for the same lock while the service
\* rejects its submissions.
Syncer == 1
Rival == 2
Next ==
    \/ Tick
    \/ ExtStart
    \/ ExtFinish
    \/ \E e \in {"simple", "handle"} : StartSync(Syncer, e)
    \/ WaitCheck(Syncer)
    \/ AcqOpen(Syncer)
    \/ AcqFlock(Syncer)
    \/ AcqWrite(Syncer)
    \/ AcqRead(Syncer)
    \/ AcqRemove(Syncer)
    \/ Start(Syncer)
    \/ Retry(Syncer)
    \/ Poll(Syncer)
    \/ JobFinish(Syncer)
    \/ RelUnlock(Syncer)
    \/ RelUnlink(Syncer)
    \/ Crash(Syncer)
    \/ StartSync(Rival, "simple")
    \/ WaitCheck(Rival)
    \/ AcqOpen(Rival)
    \/ AcqFlock(Rival)
    \/ AcqWrite(Rival)
    \/ AcqRead(Rival)
    \/ AcqRemove(Rival)
    \/ StartRejected(Rival)
    \/ RelUnlock(Rival)
    \/ RelUnlink(Rival)

Spec == Init /\ [][Next]_vars

\* Two callers contend for the lock of one knowledge base while the service
\* rejects every submission.
NextLock ==
    \/ Tick
    \/ \E c \in Callers :
        \/ StartSync(c, "simple")
        \/ WaitCheck(c)
        \/ AcqOpen(c)
        \/ AcqFlock(c)
        \/ AcqWrite(c)
        \/ AcqRead(c)
        \/ AcqRemove(c)
        \/ StartRejected(c)
        \/ RelUnlock(c)
        \/ RelUnlink(c)
        \/ Crash(c)

SpecLock == Init /\ [][NextLock]_vars

\* -------------------------------- wait_for_ingestion_job on its own
\* failureReasons entries the service may report
PoolReasons ==
    { Str(<<"file", "test/a_page_1.pdf", "exceeds", "token", "limit">>),
      Str(<<"FILE", "test/b_page_1.pdf", "over", "Token", "LIMIT">>),
      Str(<<"file", "test/a_page_1.pdf", "hit", "the", "token", "limits">>),
      Str(<<"profile", "test/b_page_1.pdf", "file", "test/a_page_1.pdf",
            "token", "limit">>),
      Str(<<"token", "limit", "for", "file", "test/a_page_1.pdf">>),
      Str(<<"file", "token", "limit">>),
      Str(<<"access", "denied">>),
      NotAString }
\* The longest failureReasons list.
MaxReasons == 3
RECURSIVE ListsUpTo(_)
ListsUpTo(n) ==
    IF n = 0 THEN { << >> }
    ELSE LET shorter == ListsUpTo(n - 1)
         IN  shorter \cup {Append(l, r) : l \in {x \in shorter : Len(x) = n - 1},
                                          r \in PoolReasons}
ReasonLists == ListsUpTo(MaxReasons)

\* The responses get_ingestion_job may give.
PollResponses ==
    {PollError}
    \cup {Response(st, << >>) : st \in {"STARTING", "IN_PROGRESS", "COMPLETE"}}
    \cup {Response("FAILED", rs) : rs \in ReasonLists}

\* for attempt in range(max_attempts): one iteration up to the return, the
\* raise or the beginning of time.sleep(interval).
WaitPoll ==
    /\ wPc = "poll"
    /\ \E resp \in PollResponses :
        LET out == PollOutcome(resp, wFailed)
        IN  /\ wSeen' = Append(wSeen, resp.status)
            /\ wReasons' = resp.reasons
            /\ wAttempt' = wAttempt + 1
            /\ wFailed' = out.failed_files
            /\ IF out.act = "sleep"
               THEN wPc' = "sleep" /\ UNCHANGED wOut
               ELSE /\ wPc' = IF out.act = "return" THEN "returned" ELSE "raised"
                    /\ wOut' = out
    /\ UNCHANGED <<syncVars, trackVars, pipeVars, queueVars, laterVars>>

\* The loop with range(max_attempts + 1).
WaitWakeOneMore ==
    /\ wPc = "sleep"
    /\ IF wAttempt <= max_attempts
       THEN wPc' = "poll" /\ UNCHANGED wOut
       ELSE LET out == TimeoutOutcome(wFailed)
            IN  /\ wPc' = IF out.act = "return" THEN "returned" ELSE "raised"
                /\ wOut' = out
    /\ UNCHANGED <<syncVars, trackVars, pipeVars, queueVars, wAttempt, wFailed, wSeen, wReasons, laterVars>>

\* time.sleep(interval) is over: the next iteration, or the code after the
\* loop.
WaitWake ==
    /\ wPc = "sleep"
    /\ IF wAttempt < max_attempts
       THEN wPc' = "poll" /\ UNCHANGED wOut
       ELSE LET out == TimeoutOutcome(wFailed)
            IN  /\ wPc' = IF out.act = "return" THEN "returned" ELSE "raised"
                /\ wOut' = out
    /\ UNCHANGED <<syncVars, trackVars, pipeVars, queueVars, wAttempt, wFailed, wSeen, wReasons, laterVars>>

NextWait == WaitPoll \/ WaitWake

SpecWait == Init /\ [][NextWait]_vars

\* ------------------------------------------------ FolderSyncTracker
\* SYNC_THRESHOLD (20 in the code), cut down.
SYNC_THRESHOLD == 2
\* increment_and_check_sync calls made in one behaviour.
MaxCalls == 3
\* Files of one process_folder run.
MaxBulkFiles == 1

TotalCalls == calls["test"] + calls["Insurance"]

\* increment_and_check_sync(folder_name) is called by worker w.
TBegin(w, r) ==
    /\ tPc[w] = "idle"
    /\ TotalCalls < MaxCalls
    /\ tPc' = [tPc EXCEPT ![w] = "read"]
    /\ tRoot' = [tRoot EXCEPT ![w] = r]
    /\ tRet' = [tRet EXCEPT ![w] = "none"]
    /\ calls' = [calls EXCEPT ![r] = @ + 1]
    /\ UNCHANGED <<stateFile, fileCounts, tTmp, syncs, syncedSince, bPc,
                   bFolder, bFiles>>
    /\ UNCHANGED <<syncVars, waitVars, pipeVars, queueVars, laterVars>>

\* if folder_name not in self.file_counts: self.file_counts[folder_name] = 0;
\* the read of self.file_counts[folder_name] += 1
TRead(w) ==
    /\ tPc[w] = "read"
    /\ tTmp' = [tTmp EXCEPT ![w] = fileCounts[InstanceOf(w)][tRoot[w]]]
    /\ tPc' = [tPc EXCEPT ![w] = "write"]
    /\ UNCHANGED <<stateFile, fileCounts, tRoot, tRet, calls, syncs,
                   syncedSince, bPc, bFolder, bFiles>>
    /\ UNCHANGED <<syncVars, waitVars, pipeVars, queueVars, laterVars>>

\* the store of self.file_counts[folder_name] += 1
TWrite(w) ==
    /\ tPc[w] = "write"
    /\ fileCounts' = [fileCounts EXCEPT ![InstanceOf(w)][tRoot[w]] = tTmp[w] + 1]
    /\ syncedSince' = [syncedSince EXCEPT ![tRoot[w]] = FALSE]
    /\ tPc' = [tPc EXCEPT ![w] = "save"]
    /\ UNCHANGED <<stateFile, tRoot, tTmp, tRet, calls, syncs, bPc, bFolder,
                   bFiles>>
    /\ UNCHANGED <<syncVars, waitVars, pipeVars, queueVars, laterVars>>

\* self._save_state(): json.dump(self.file_counts, f) replaces the file.
TSave(w) ==
    /\ tPc[w] = "save"
    /\ stateFile' = fileCounts[InstanceOf(w)]
    /\ tPc' = [tPc EXCEPT ![w] = "check"]
    /\ UNCHANGED <<fileCounts, tRoot, tTmp, tRet, calls, syncs, syncedSince,
                   bPc, bFolder, bFiles>>
    /\ UNCHANGED <<syncVars, waitVars, pipeVars, queueVars, laterVars>>

\* should_sync = self.file_counts[folder_name] >= self.SYNC_THRESHOLD;
\* if should_sync: self.reset_count(folder_name) (count = 0, _save_state) and
\* sync_to_knowledge_base is entered; else return False.
TCheck(w) ==
    /\ tPc[w] = "check"
    /\ IF fileCounts[InstanceOf(w)][tRoot[w]] >= SYNC_THRESHOLD
       THEN /\ fileCounts' = [fileCounts EXCEPT ![InstanceOf(w)][tRoot[w]] = 0]
            /\ stateFile' = fileCounts'[InstanceOf(w)]
            /\ syncs' = [syncs EXCEPT ![tRoot[w]] = @ + 1]
            /\ syncedSince' = [syncedSince EXCEPT ![tRoot[w]] = TRUE]
            /\ tPc' = [tPc EXCEPT ![w] = "sync"]
            /\ UNCHANGED tRet
       ELSE /\ tPc' = [tPc EXCEPT ![w] = "idle"]
            /\ tRet' = [tRet EXCEPT ![w] = "false"]
            /\ UNCHANGED <<fileCounts, stateFile, syncs, syncedSince>>
    /\ UNCHANGED <<tRoot, tTmp, calls, bPc, bFolder, bFiles>>
    /\ UNCHANGED <<syncVars, waitVars, pipeVars, queueVars, laterVars>>

\* sync_to_knowledge_base(folder_name) returns a result of any status, or
\* raises (KB_MAPPING[folder] of an unmapped folder, the construction of
\* KBIngestionService): return should_sync, or the exception leaves the call.
TSync(w) ==
    /\ tPc[w] = "sync"
    /\ \E out \in {"true", "raised"} : tRet' = [tRet EXCEPT ![w] = out]
    /\ tPc' = [tPc EXCEPT ![w] = "idle"]
    /\ UNCHANGED <<stateFile, fileCounts, tRoot, tTmp, calls, syncs,
                   syncedSince, bPc, bFolder, bFiles>>
    /\ UNCHANGED <<syncVars, waitVars, pipeVars, queueVars, laterVars>>

\* A worker process is restarted: FolderSyncTracker() loads the state file.
TReload(i) ==
    /\ \A w \in Workers : InstanceOf(w) = i => tPc[w] = "idle"
    /\ fileCounts[i] # stateFile
    /\ fileCounts' = [fileCounts EXCEPT ![i] = stateFile]
    /\ UNCHANGED <<stateFile, tPc, tRoot, tTmp, tRet, calls, syncs,
                   syncedSince, bPc, bFolder, bFiles>>
    /\ UNCHANGED <<syncVars, waitVars, pipeVars, queueVars, laterVars>>

\* process_folder(folder) begins: the files of the folder are listed.
BulkStart(r) ==
    /\ bPc = "idle"
    /\ bPc' = "running"
    /\ bFolder' = r
    /\ bFiles' = 0
    /\ UNCHANGED <<stateFile, fileCounts, tPc, tRoot, tTmp, tRet, calls, syncs,
                   syncedSince>>
    /\ UNCHANGED <<syncVars, waitVars, pipeVars, queueVars, laterVars>>

\* process_single_file of one file of the folder: when it gets as far as its
\* Step 7 it syncs the folder with sync_to_knowledge_base_simple.
BulkFile ==
    /\ bPc = "running"
    /\ bFiles < MaxBulkFiles
    /\ bFiles' = bFiles + 1
    /\ \E reached \in BOOLEAN :
          syncedSince' = [syncedSince EXCEPT ![bFolder] = @ \/ reached]
    /\ UNCHANGED <<stateFile, fileCounts, tPc, tRoot, tTmp, tRet, calls, syncs,
                   bPc, bFolder>>
    /\ UNCHANGED <<syncVars, waitVars, pipeVars, queueVars, laterVars>>

\* process_folder returns its results.
BulkEnd ==
    /\ bPc = "running"
    /\ bPc' = "done"
    /\ UNCHANGED <<stateFile, fileCounts, tPc, tRoot, tTmp, tRet, calls, syncs,
                   syncedSince, bFolder, bFiles>>
    /\ UNCHANGED <<syncVars, waitVars, pipeVars, queueVars, laterVars>>

NextTrack ==
    \/ \E w \in Workers, r \in Roots : TBegin(w, r)
    \/ \E w \in Workers : TRead(w) \/ TWrite(w) \/ TSave(w) \/ TCheck(w) \/ TSync(w)
    \/ \E i \in Instances : TReload(i)
    \/ \E r \in Roots : BulkStart(r)
    \/ BulkFile
    \/ BulkEnd

SpecTrack == Init /\ [][NextTrack]_vars

\* ------------------------------------------------ process_single_file
\* max_retries of the download loop.
max_retries == 3
\* Pages (chunks) of one file.
MaxChunks == 2
\* Runs of process_single_file in one behaviour.
MaxRuns == 2

PipeVariants == {"orchestrator", "instrumented", "async"}

\* An effect of the run: the stage, and the chunk it concerns (0: none).
Ev(st, k) == [stage |-> st, chunk |-> k]

\* The run goes on to position to after the effect ev.
PipeGo(to, ev) ==
    /\ pipe' = [pipe EXCEPT !.pc = to, !.log = Append(@, ev)]
    /\ UNCHANGED pipeRuns
    /\ UNCHANGED <<syncVars, waitVars, trackVars, queueVars, laterVars>>

\* The run goes on to position to, no effect.
PipeSkip(to) ==
    /\ pipe' = [pipe EXCEPT !.pc = to]
    /\ UNCHANGED pipeRuns
    /\ UNCHANGED <<syncVars, waitVars, trackVars, queueVars, laterVars>>

\* process_single_file ends: return res (why: the reason of a False).
PipeReturn(res, why) ==
    /\ pipe' = [pipe EXCEPT !.pc = "returned", !.result = res, !.why = why]
    /\ UNCHANGED pipeRuns
    /\ UNCHANGED <<syncVars, waitVars, trackVars, queueVars, laterVars>>

\* except Exception as e of process_single_file: return False, for NoSuchKey
\* and NoSuchBucket as for every other error.
OnExceptionReraise(e) == IF e = "NoSuchKey" THEN "false" ELSE "raised"
OnException(e) == IF e = "NoSuchKey" THEN "false" ELSE "false"

\* An exception leaves a stage of the run.
PipeRaise == \E e \in {"NoSuchKey", "other"} : PipeReturn(OnException(e), "exception")

\* return success_count > 0
FinalResultTrue(n) == "true"
FinalResult(n) == IF n > 0 THEN "true" ELSE "false"

\* A worker calls process_single_file(file_key) of one of the orchestrators.
PipeStart(v, c) ==
    /\ pipe.pc = "idle"
    /\ pipeRuns < MaxRuns
    /\ pipe' = [IdlePipe EXCEPT !.variant = v, !.conv = c,
                                !.pc = IF v = "instrumented" THEN "check" ELSE "download"]
    /\ UNCHANGED pipeRuns
    /\ UNCHANGED <<syncVars, waitVars, trackVars, queueVars, laterVars>>

\* if attempt == max_retries - 1, in both branches of the download loop.
LastAttemptLate(attempt) == attempt = max_retries
LastAttempt(attempt) == attempt = max_retries - 1

\* Orchestrator: one attempt of the download loop. get_object returns the
\* bytes, returns None (NoSuchKey) or raises; the last failed attempt
\* returns False, after "File not found after 3 attempts" for None and
\* "Failed to download after 3 attempts" for an exception.
ODownload ==
    /\ pipe.variant = "orchestrator" /\ pipe.pc = "download"
    /\ \E got \in {"bytes", "none", "raise"} :
          pipe' = IF got = "bytes"
                  THEN [pipe EXCEPT !.pc = "convert", !.gets = Append(@, got),
                                    !.log = Append(@, Ev("download", 0))]
                  ELSE IF LastAttempt(pipe.attempt)
                  THEN [pipe EXCEPT !.pc = "returned", !.gets = Append(@, got),
                                    !.result = "false",
                                    !.why = IF got = "none" THEN "notfound"
                                            ELSE "download"]
                  ELSE [pipe EXCEPT !.attempt = @ + 1, !.gets = Append(@, got)]
    /\ UNCHANGED pipeRuns
    /\ UNCHANGED <<syncVars, waitVars, trackVars, queueVars, laterVars>>

\* Orchestrator: convert_to_pdf for a convertible format; None returns False.
OConvert ==
    /\ pipe.variant = "orchestrator" /\ pipe.pc = "convert"
    /\ IF pipe.conv
       THEN \E got \in {"pdf", "none", "raise"} :
               CASE got = "pdf" -> PipeGo("watermark", Ev("convert", 0))
                 [] got = "none" -> PipeReturn("false", "conversion")
                 [] OTHER -> PipeRaise
       ELSE PipeSkip("watermark")

\* Orchestrator: remove_watermarks
OWatermark ==
    /\ pipe.variant = "orchestrator" /\ pipe.pc = "watermark"
    /\ \/ PipeGo("ocr", Ev("watermark", 0))
       \/ PipeRaise

\* Orchestrator: apply_ocr_to_pdf
OOcr ==
    /\ pipe.variant = "orchestrator" /\ pipe.pc = "ocr"
    /\ \/ PipeGo("clean", Ev("ocr", 0))
       \/ PipeRaise

\* Orchestrator: clean_filename gives cleaned_key
OClean ==
    /\ pipe.variant = "orchestrator" /\ pipe.pc = "clean"
    /\ \/ PipeGo("chunk", Ev("clean", 0))
       \/ PipeRaise

\* Orchestrator: chunk_pdf; no chunks returns False.
OChunk ==
    /\ pipe.variant = "orchestrator" /\ pipe.pc = "chunk"
    /\ \/ \E n \in 0 .. MaxChunks :
             IF n = 0 THEN PipeReturn("false", "nochunks")
             ELSE /\ pipe' = [pipe EXCEPT !.pc = "upload", !.chunks = n, !.idx = 1,
                                          !.log = Append(@, Ev("chunk", 0))]
                  /\ UNCHANGED pipeRuns
                  /\ UNCHANGED <<syncVars, waitVars, trackVars, queueVars, laterVars>>
       \/ PipeRaise

\* The upload loop is at chunk idx, or past the last chunk.
AfterUpload(q) == IF q.idx = q.chunks THEN "sync" ELSE "upload"

\* Orchestrator: writer.write and put_object of the next chunk; after a
\* successful put_object the metadata file of the chunk is created.
OUpload ==
    /\ pipe.variant = "orchestrator" /\ pipe.pc = "upload"
    /\ \/ /\ pipe' = [pipe EXCEPT !.pc = "sidecar", !.ok = @ + 1,
                                  !.log = Append(@, Ev("upload", pipe.idx))]
          /\ UNCHANGED pipeRuns
          /\ UNCHANGED <<syncVars, waitVars, trackVars, queueVars, laterVars>>
       \/ /\ pipe' = [pipe EXCEPT !.pc = AfterUpload(pipe), !.idx = @ + 1,
                                  !.log = Append(@, Ev("upload_failed", pipe.idx))]
          /\ UNCHANGED pipeRuns
          /\ UNCHANGED <<syncVars, waitVars, trackVars, queueVars, laterVars>>
       \/ PipeRaise

\* Orchestrator: create_metadata_for_file(chunk_key); its exception is logged.
OSidecar ==
    /\ pipe.variant = "orchestrator" /\ pipe.pc = "sidecar"
    /\ \E made \in BOOLEAN :
          /\ pipe' = [pipe EXCEPT !.pc = AfterUpload(pipe), !.idx = @ + 1,
                                  !.log = IF made THEN Append(@, Ev("sidecar", pipe.idx))
                                          ELSE @]
          /\ UNCHANGED pipeRuns
          /\ UNCHANGED <<syncVars, waitVars, trackVars, queueVars, laterVars>>

\* KB sync of both orchestrators: sync_to_knowledge_base_simple for a mapped
\* folder, nothing for an unmapped one, every exception logged; then
\* return success_count > 0.
PipeSync ==
    /\ pipe.variant \in {"orchestrator", "instrumented"} /\ pipe.pc = "sync"
    /\ \E mapped \in BOOLEAN :
          /\ pipe' = [pipe EXCEPT !.pc = "returned",
                                  !.log = IF mapped THEN Append(@, Ev("sync", 0)) ELSE @,
                                  !.result = FinalResult(pipe.ok)]
          /\ UNCHANGED pipeRuns
          /\ UNCHANGED <<syncVars, waitVars, trackVars, queueVars, laterVars>>

\* InstrumentedOrchestrator, Step 0: a file whose first chunk exists returns
\* True at once.
ICheck ==
    /\ pipe.variant = "instrumented" /\ pipe.pc = "check"
    /\ \/ PipeReturn("true", "already_chunked")
       \/ PipeSkip("download")
       \/ PipeRaise

\* InstrumentedOrchestrator, Step 1: get_object, and convert_to_pdf for a
\* convertible format; None returns False.
IDownload ==
    /\ pipe.variant = "instrumented" /\ pipe.pc = "download"
    /\ \/ /\ ~pipe.conv
          /\ PipeGo("clean", Ev("download", 0))
       \/ /\ pipe.conv
          /\ \/ /\ pipe' = [pipe EXCEPT !.pc = "clean",
                                        !.log = @ \o <<Ev("download", 0), Ev("convert", 0)>>]
                /\ UNCHANGED pipeRuns
                /\ UNCHANGED <<syncVars, waitVars, trackVars, queueVars, laterVars>>
             \/ /\ pipe' = [pipe EXCEPT !.pc = "returned", !.result = "false",
                                        !.why = "conversion",
                                        !.log = Append(@, Ev("download", 0))]
                /\ UNCHANGED pipeRuns
                /\ UNCHANGED <<syncVars, waitVars, trackVars, queueVars, laterVars>>
       \/ PipeRaise

\* InstrumentedOrchestrator, Step 2: clean_filename, and the rename of the
\* source object to the cleaned key.
IClean ==
    /\ pipe.variant = "instrumented" /\ pipe.pc = "clean"
    /\ \/ PipeGo("watermark", Ev("clean", 0))
       \/ PipeRaise

\* InstrumentedOrchestrator, Step 3: remove_watermarks
IWatermark ==
    /\ pipe.variant = "instrumented" /\ pipe.pc = "watermark"
    /\ \/ PipeGo("ocr", Ev("watermark", 0))
       \/ PipeRaise

\* InstrumentedOrchestrator, Step 4: apply_ocr_to_pdf
IOcr ==
    /\ pipe.variant = "instrumented" /\ pipe.pc = "ocr"
    /\ \/ PipeGo("chunk", Ev("ocr", 0))
       \/ PipeRaise

\* InstrumentedOrchestrator, Step 5: chunk_pdf; no chunks returns False.
IChunk ==
    /\ pipe.variant = "instrumented" /\ pipe.pc = "chunk"
    /\ \/ \E n \in 0 .. MaxChunks :
             IF n = 0 THEN PipeReturn("false", "nochunks")
             ELSE /\ pipe' = [pipe EXCEPT !.pc = "upload", !.chunks = n, !.idx = 1,
                                          !.log = Append(@, Ev("chunk", 0))]
                  /\ UNCHANGED pipeRuns
                  /\ UNCHANGED <<syncVars, waitVars, trackVars, queueVars, laterVars>>
       \/ PipeRaise

\* InstrumentedOrchestrator, Step 6: writer.write and put_object of the next
\* chunk.
IUpload ==
    /\ pipe.variant = "instrumented" /\ pipe.pc = "upload"
    /\ \/ \E put \in BOOLEAN :
             /\ pipe' = [pipe EXCEPT !.pc = AfterUpload(pipe), !.idx = @ + 1,
                                     !.ok = IF put THEN @ + 1 ELSE @,
                                     !.log = Append(@, Ev(IF put THEN "upload"
                                                          ELSE "upload_failed", pipe.idx))]
             /\ UNCHANGED pipeRuns
             /\ UNCHANGED <<syncVars, waitVars, trackVars, queueVars, laterVars>>
       \/ PipeRaise

\* process_single_file_async, Stage 1: _download_file_sync calls
\* self.s3_service.download_file, which S3Service does not define; the
\* AttributeError is caught there, None comes back and the run returns False.
ADownload ==
    /\ pipe.variant = "async" /\ pipe.pc = "download"
    /\ PipeReturn("false", "download")

\* The worker loop takes the result of the run and goes on to its next poll:
\* SQSWorker.run catches every Exception inside while True.
PipeNextPoll ==
    /\ pipe.pc = "returned"
    /\ pipe' = [IdlePipe EXCEPT !.result = pipe.result]
    /\ pipeRuns' = pipeRuns + 1
    /\ UNCHANGED <<syncVars, waitVars, trackVars, queueVars, laterVars>>

NextPipe ==
    \/ \E v \in PipeVariants, c \in BOOLEAN : PipeStart(v, c)
    \/ ODownload \/ OConvert \/ OWatermark \/ OOcr \/ OClean \/ OChunk
    \/ OUpload \/ OSidecar
    \/ ICheck \/ IDownload \/ IClean \/ IWatermark \/ IOcr \/ IChunk \/ IUpload
    \/ PipeSync
    \/ ADownload
    \/ PipeNextPoll

SpecPipe == Init /\ [][NextPipe]_vars

\* ------------------------------------------------------ queue workers
QueueVariants == {"parallel", "async", "metrics", "services"}

\* What a record of an S3 notification announces: a created object with a
\* supported extension in the source bucket, another event, an object of
\* another bucket, or an extension that is not supported.
RecordKinds == {"ok", "noncreate", "otherbucket", "badext"}

RecordSeqs == UNION {[1 .. n -> RecordKinds] : n \in 1 .. MaxRecords}

\* The Body of a message: no JSON, JSON without Records, or Records.
Bodies ==
    {[json |-> "invalid", records |-> << >>],
     [json |-> "norecords", records |-> << >>]}
    \cup {[json |-> "records", records |-> rs] : rs \in RecordSeqs}

Batch == {m \in Msgs : qBody[m].json # "none"}
Records(m) == DOMAIN qBody[m].records

\* receive_message returned a batch: messages 1 .. n with their bodies.
Receive(v, n) ==
    /\ qPc = "poll"
    /\ qVariant' = v
    /\ qPc' = "handling"
    /\ \E bodies \in [1 .. n -> Bodies] :
          qBody' = [m \in Msgs |-> IF m <= n THEN bodies[m] ELSE NoBody]
    /\ qRun' = NoRuns
    /\ qHandled' = {}
    /\ qDeleted' = {}
    /\ UNCHANGED <<syncVars, waitVars, trackVars, pipeVars, laterVars>>

\* SQSWorker.process_messages_parallel: every record of every message whose
\* Body parses is submitted to the pool; process_single_file_wrapper calls
\* process_single_file for each record that names a bucket and a key.
ParSubmit ==
    /\ qVariant = "parallel" /\ qPc = "handling"
    /\ qRun = NoRuns
    /\ \E m \in Batch : Records(m) # {}
    /\ qRun' = [m \in Msgs |-> [i \in 1 .. MaxRecords |->
                   IF i \in Records(m) THEN "running" ELSE "none"]]
    /\ UNCHANGED <<qVariant, qPc, qBody, qHandled, qDeleted>>
    /\ UNCHANGED <<syncVars, waitVars, trackVars, pipeVars, laterVars>>

\* A run of process_single_file in a pool thread is through with its
\* chunks and calls sync_to_knowledge_base_simple, which waits for the sync
\* lock and then polls the ingestion job, sleeping between the polls.
ParSync(m, i) ==
    /\ qVariant = "parallel" /\ qPc = "handling"
    /\ qRun[m][i] = "running"
    /\ qRun' = [qRun EXCEPT ![m][i] = "syncing"]
    /\ UNCHANGED <<qVariant, qPc, qBody, qHandled, qDeleted>>
    /\ UNCHANGED <<syncVars, waitVars, trackVars, pipeVars, laterVars>>

\* A run of process_single_file in a pool thread returns True or False:
\* after its sync, or before it (an early return False, no KB mapping for
\* the folder).
ParFinish(m, i) ==
    /\ qVariant = "parallel" /\ qPc = "handling"
    /\ qRun[m][i] \in {"running", "syncing"}
    /\ \E res \in {FinalResult(0), FinalResult(1)} :
          qRun' = [qRun EXCEPT ![m][i] = res]
    /\ UNCHANGED <<qVariant, qPc, qBody, qHandled, qDeleted>>
    /\ UNCHANGED <<syncVars, waitVars, trackVars, pipeVars, laterVars>>

\* The with ThreadPoolExecutor block and the as_completed loop are left
\* when every submitted run has returned.
SomeDone == \E m \in Msgs, i \in 1 .. MaxRecords : qRun[m][i] \in {"true", "false"}
AllDone ==
    \A m \in Msgs, i \in 1 .. MaxRecords : qRun[m][i] \notin {"running", "syncing"}

\* process_messages_parallel returns successful_receipts + failed_receipts
\* (nothing when no message gave a record) and run deletes them.
ParDelete ==
    /\ qVariant = "parallel" /\ qPc = "handling"
    /\ \/ qRun # NoRuns /\ AllDone
       \/ \A m \in Batch : Records(m) = {}
    /\ qDeleted' = {m \in Batch : Records(m) # {}}
    /\ qHandled' = Batch
    /\ qPc' = "collect"
    /\ UNCHANGED <<qVariant, qBody, qRun>>
    /\ UNCHANGED <<syncVars, waitVars, trackVars, pipeVars, laterVars>>

\* SQSWorker.process_messages_async: one task per message;
\* process_single_message_async hands the first record of a message with
\* Records to process_single_file_async.
AsyncSubmit ==
    /\ qVariant = "async" /\ qPc = "handling"
    /\ qRun = NoRuns
    /\ \E m \in Batch : Records(m) # {}
    /\ qRun' = [m \in Msgs |-> [i \in 1 .. MaxRecords |->
                   IF i = 1 /\ i \in Records(m) THEN "running" ELSE "none"]]
    /\ UNCHANGED <<qVariant, qPc, qBody, qHandled, qDeleted>>
    /\ UNCHANGED <<syncVars, waitVars, trackVars, pipeVars, laterVars>>

\* process_single_file_async returns False (see ADownload).
AsyncFinish(m) ==
    /\ qVariant = "async" /\ qPc = "handling"
    /\ qRun[m][1] = "running"
    /\ qRun' = [qRun EXCEPT ![m][1] = "false"]
    /\ UNCHANGED <<qVariant, qPc, qBody, qHandled, qDeleted>>
    /\ UNCHANGED <<syncVars, waitVars, trackVars, pipeVars, laterVars>>

\* asyncio.gather is over: the receipt handles of the results with success
\* are returned and run_async deletes them.
AsyncDelete ==
    /\ qVariant = "async" /\ qPc = "handling"
    /\ \/ qRun # NoRuns /\ AllDone
       \/ \A m \in Batch : Records(m) = {}
    /\ qDeleted' = {m \in Batch : qRun[m][1] = "true"}
    /\ qHandled' = Batch
    /\ qPc' = "collect"
    /\ UNCHANGED <<qVariant, qBody, qRun>>
    /\ UNCHANGED <<syncVars, waitVars, trackVars, pipeVars, laterVars>>

\* The message the for loop over the batch is at.
NextMsg == CHOOSE m \in Batch \ qHandled : \A k \in Batch \ qHandled : m <= k

\* SQSWorkerWithMetrics.process_message: the first record that is an
\* ObjectCreated:Put of the source bucket with a supported extension (0: no
\* such record).
FirstOk(m) ==
    IF \E i \in Records(m) : qBody[m].records[i] = "ok"
    THEN CHOOSE i \in Records(m) :
            /\ qBody[m].records[i] = "ok"
            /\ \A k \in Records(m) : qBody[m].records[k] = "ok" => i <= k
    ELSE 0

\* SQSWorkerWithMetrics: process_message of the next message up to the call
\* of process_single_file. No JSON and no Records give False, records that
\* are all skipped give True; poll_and_process deletes the message on True.
MetBegin ==
    /\ qVariant = "metrics" /\ qPc = "handling"
    /\ Batch \ qHandled # {}
    /\ \A i \in 1 .. MaxRecords : qRun[NextMsg][i] # "running"
    /\ LET m == NextMsg
       IN  IF qBody[m].json # "records"
           THEN /\ qHandled' = qHandled \cup {m}
                /\ UNCHANGED <<qRun, qDeleted>>
           ELSE IF FirstOk(m) = 0
           THEN /\ qHandled' = qHandled \cup {m}
                /\ qDeleted' = qDeleted \cup {m}
                /\ UNCHANGED qRun
           ELSE /\ qRun' = [qRun EXCEPT ![m][FirstOk(m)] = "running"]
                /\ UNCHANGED <<qHandled, qDeleted>>
    /\ UNCHANGED <<qVariant, qPc, qBody>>
    /\ UNCHANGED <<syncVars, waitVars, trackVars, pipeVars, laterVars>>

\* SQSWorkerWithMetrics: process_single_file returned, process_message
\* returns its result and the message is deleted if it is True.
MetFinish ==
    /\ qVariant = "metrics" /\ qPc = "handling"
    /\ Batch \ qHandled # {}
    /\ \E i \in 1 .. MaxRecords : qRun[NextMsg][i] = "running"
    /\ LET m == NextMsg
       IN  \E res \in {FinalResult(0), FinalResult(1)} :
              /\ qRun' = [qRun EXCEPT ![m][FirstOk(m)] = res]
              /\ qDeleted' = IF res = "true" THEN qDeleted \cup {m} ELSE qDeleted
              /\ qHandled' = qHandled \cup {m}
    /\ UNCHANGED <<qVariant, qPc, qBody>>
    /\ UNCHANGED <<syncVars, waitVars, trackVars, pipeVars, laterVars>>

\* services/sqs_worker.py process_message: process_s3_event reads
\* record.get('body', ''), a key the messages of receive_message do not have
\* (theirs is 'Body'), json.loads('') fails, it returns None and the message
\* is deleted.
SvcProcess ==
    /\ qVariant = "services" /\ qPc = "handling"
    /\ Batch \ qHandled # {}
    /\ qHandled' = qHandled \cup {NextMsg}
    /\ qDeleted' = qDeleted \cup {NextMsg}
    /\ UNCHANGED <<qVariant, qPc, qBody, qRun>>
    /\ UNCHANGED <<syncVars, waitVars, trackVars, pipeVars, laterVars>>

\* The for loop of the metrics or services worker is through the batch.
LoopDone ==
    /\ qVariant \in {"metrics", "services"} /\ qPc = "handling"
    /\ qHandled = Batch
    /\ qPc' = "collect"
    /\ UNCHANGED <<qVariant, qBody, qRun, qHandled, qDeleted>>
    /\ UNCHANGED <<syncVars, waitVars, trackVars, pipeVars, laterVars>>

\* The worker loop goes on to its next poll.
QueueNextPoll ==
    /\ qPc = "collect"
    /\ qPc' = "poll"
    /\ qBody' = [m \in Msgs |-> NoBody]
    /\ qRun' = NoRuns
    /\ qHandled' = {}
    /\ qDeleted' = {}
    /\ UNCHANGED qVariant
    /\ UNCHANGED <<syncVars, waitVars, trackVars, pipeVars, laterVars>>

NextQueue ==
    \/ \E v \in QueueVariants, n \in Msgs : Receive(v, n)
    \/ ParSubmit
    \/ \E m \in Msgs, i \in 1 .. MaxRecords : ParSync(m, i)
    \/ \E m \in Msgs, i \in 1 .. MaxRecords : ParFinish(m, i)
    \/ ParDelete
    \/ AsyncSubmit
    \/ \E m \in Msgs : AsyncFinish(m)
    \/ AsyncDelete
    \/ MetBegin
    \/ MetFinish
    \/ SvcProcess
    \/ LoopDone
    \/ QueueNextPoll

SpecQueue == Init /\ [][NextQueue]_vars

\* ------------------------------------------------- filename cleaning
\* unidecode.unidecode: ASCII characters stay, the quotation mark becomes
\* a straight quote.
unidecode(s) == [k \in DOMAIN s |-> IF s[k] = "rsquo" THEN "'" ELSE s[k]]

\* re.IGNORECASE on the letters of the term.
UpperCase(c) ==
    CASE c = "t" -> "T"
      [] c = "m" -> "M"
      [] c = "i" -> "I"
      [] OTHER -> c

\* The character classes of the patterns.
InClass(cls, c) ==
    CASE cls = "\\s" -> c = " "
      [] cls = "\\d" -> c = "1"
      [] cls = "QUOTE_CHARS" -> c \in {"'", "\""}
      [] cls = "_" -> c = "_"
      [] cls = "[^\\x00-\\x7F]" -> c = "rsquo"

\* A greedy run of a class from position i: the first position past it.
RECURSIVE SkipClass(_, _, _)
SkipClass(cls, s, i) ==
    IF i <= Len(s) /\ InClass(cls, s[i]) THEN SkipClass(cls, s, i + 1) ELSE i

\* The first position from i that holds c, 0 when there is none.
RECURSIVE FindChar(_, _, _)
FindChar(c, s, i) ==
    IF i > Len(s) THEN 0
    ELSE IF s[i] = c THEN i
    ELSE FindChar(c, s, i + 1)

\* "TMI\s*" at position i, case-insensitive: the position past the match,
\* 0 when it does not match there.
TmiEnd(s, i) ==
    IF i + 2 <= Len(s) /\ UpperCase(s[i]) = "T" /\ UpperCase(s[i + 1]) = "M"
       /\ UpperCase(s[i + 2]) = "I"
    THEN SkipClass("\\s", s, i + 3)
    ELSE 0

\* An opening character, digits and the closing character at position i,
\* then "\s*TMI\s*".
NumberedTmiEnd(open, close, s, i) ==
    IF s[i] = open /\ i + 1 <= Len(s) /\ InClass("\\d", s[i + 1])
    THEN LET d == SkipClass("\\d", s, i + 1)
         IN  IF d <= Len(s) /\ s[d] = close
             THEN TmiEnd(s, SkipClass("\\s", s, d + 1))
             ELSE 0
    ELSE 0

\* Where a match of pattern p that starts at position i ends (the position
\* past it), 0 when p does not match at i. No pattern matches the empty
\* string.
MatchEnd(p, s, i) ==
    CASE p = "BRACKET_CONTENT_REGEX" ->
           IF s[i] = "[" /\ FindChar("]", s, i + 1) # 0
           THEN SkipClass("\\s", s, FindChar("]", s, i + 1) + 1) ELSE 0
      [] p = "PAREN_CONTENT_REGEX" ->
           IF s[i] = "(" /\ FindChar(")", s, i + 1) # 0
           THEN SkipClass("\\s", s, FindChar(")", s, i + 1) + 1) ELSE 0
      [] p = "TMI\\s*" -> TmiEnd(s, i)
      [] p = "\\d+\\s*TMI\\s*" ->
           IF InClass("\\d", s[i])
           THEN TmiEnd(s, SkipClass("\\s", s, SkipClass("\\d", s, i)))
           ELSE 0
      [] p = "\\(\\d+\\)\\s*TMI\\s*" -> NumberedTmiEnd("(", ")", s, i)
      [] p = "\\[\\d+\\]\\s*TMI\\s*" -> NumberedTmiEnd("[", "]", s, i)
      [] p = "QUOTE_CHARS_REGEX" ->
           IF InClass("QUOTE_CHARS", s[i])
           THEN SkipClass("QUOTE_CHARS", s, i) ELSE 0
      [] p = "WHITESPACE_REGEX" ->
           IF InClass("\\s", s[i]) THEN SkipClass("\\s", s, i) ELSE 0
      [] p = "[^\\x00-\\x7F]+" ->
           IF InClass("[^\\x00-\\x7F]", s[i])
           THEN SkipClass("[^\\x00-\\x7F]", s, i) ELSE 0
      [] p = "MULTIPLE_UNDERSCORES_REGEX" ->
           IF s[i] = "_" /\ i + 1 <= Len(s) /\ s[i + 1] = "_"
           THEN SkipClass("_", s, i) ELSE 0

\* re.sub from position i: one pass from left to right, each match replaced,
\* the search going on past the match.
RECURSIVE SubFrom(_, _, _, _)
SubFrom(p, repl, s, i) ==
    IF i > Len(s) THEN << >>
    ELSE LET e == MatchEnd(p, s, i)
         IN  IF e = 0 THEN <<s[i]>> \o SubFrom(p, repl, s, i + 1)
             ELSE repl \o SubFrom(p, repl, s, e)

re_sub(p, repl, s) == SubFrom(p, repl, s, 1)

\* str.strip("_")
RECURSIVE strip(_)
strip(s) ==
    IF s = << >> THEN s
    ELSE IF Head(s) = "_" THEN strip(Tail(s))
    ELSE IF s[Len(s)] = "_" THEN strip(SubSeq(s, 1, Len(s) - 1))
    ELSE s

tmi_patterns ==
    <<"TMI\\s*", "\\d+\\s*TMI\\s*", "\\(\\d+\\)\\s*TMI\\s*",
      "\\[\\d+\\]\\s*TMI\\s*">>

\* Step 4: the patterns one after the other, each on the result of the last.
RECURSIVE RemoveTmi(_, _)
RemoveTmi(s, k) ==
    IF k > Len(tmi_patterns) THEN s
    ELSE RemoveTmi(re_sub(tmi_patterns[k], << >>, s), k + 1)

\* FilenameService.clean_filename on a key of a folder and a file name: the
\* steps in their order, the key handed back unchanged when no step changed
\* the name. (Step 7 calls the module unidecode, which raises, and falls back
\* to the substitution of the characters outside ASCII; the folder holds no
\* "//".)
clean_filename(key) ==
    LET s1 == unidecode(key.name)
        s2 == re_sub("BRACKET_CONTENT_REGEX", << >>, s1)
        s3 == re_sub("PAREN_CONTENT_REGEX", << >>, s2)
        s4 == RemoveTmi(s3, 1)
        s5 == re_sub("QUOTE_CHARS_REGEX", << >>, s4)
        s6 == re_sub("WHITESPACE_REGEX", <<"_">>, s5)
        s7 == re_sub("[^\\x00-\\x7F]+", <<"_">>, s6)
        s8 == strip(re_sub("MULTIPLE_UNDERSCORES_REGEX", <<"_">>, s7))
        modified == s1 # key.name \/ s2 # s1 \/ s3 # s2 \/ s4 # s3
                    \/ s5 # s4 \/ s6 # s5 \/ s8 # s7
    IN  IF modified THEN [dir |-> key.dir, name |-> s8] ELSE key

\* A caller cleans a key.
CleanCall ==
    /\ nPc = "idle"
    /\ \E key \in NameKeys :
          /\ nKey' = key
          /\ nOnce' = clean_filename(key)
    /\ nPc' = "once"
    /\ UNCHANGED <<coreVars, dualVars, bucketVars, docVars, metaVars, nTwice>>

\* The caller cleans the cleaned key.
CleanAgain ==
    /\ nPc = "once"
    /\ nTwice' = clean_filename(nOnce)
    /\ nPc' = "twice"
    /\ UNCHANGED <<coreVars, dualVars, bucketVars, docVars, metaVars, nKey, nOnce>>

NextName ==
    \/ CleanCall
    \/ CleanAgain

SpecName == Init /\ [][NextName]_vars

\* ------------------------------------------- buckets and redelivery
\* The pipelines that write chunks: Orchestrator.process_single_file,
\* InstrumentedOrchestrator.process_single_file and the Lambda's
\* process_single_file.
BucketVariants == {"orchestrator", "instrumented", "lambda"}

\* The folders of the uploaded file (the segments before the file name) and
\* its file names, without the extension ".pdf": one that clean_filename
\* changes and one that it leaves alone.
BucketDirs == {<<"Direct Taxes", "India">>, <<"test">>}
BucketNames == {<<"t", " ", "1">>, <<"t", "_", "1">>}

\* str.replace(' ', '_')
replace_blank(s) == [k \in DOMAIN s |-> IF s[k] = " " THEN "_" ELSE s[k]]

\* The key of the chunk of one page: folder, base name, "_page_", number.
\* Orchestrator builds it from the cleaned key and replaces blanks; the
\* other two take the base name of the key the run holds.
ChunkKey(v, key, n) ==
    [dir |-> key.dir,
     name |-> IF v = "orchestrator" THEN replace_blank(key.name) ELSE key.name,
     page |-> n]

\* MetadataService.ONLY_COUNTRY_LIST and the Lambda's
\* METADATA_REQUIRED_FOLDERS, as far as the folders of the model go.
ONLY_COUNTRY_LIST ==
    {"accounting-standards", "Capital Market Regulations", "Direct Taxes",
     "Indirect Taxes", "Insurance", "Labour Law", "Banking Regulations"}
METADATA_REQUIRED_FOLDERS ==
    {"commercial-laws", "Banking Regulations", "Capital Market Regulations",
     "Direct Taxes", "Indirect Taxes", "Insurance", "Labour Law",
     "accounting-standards", "Auditing Standards"}

\* MetadataService.create_metadata_for_file writes a sidecar when
\* determine_metadata_attributes finds attributes for the chunk key: its
\* segments are the folders and the file name.
HasAttributes(ck) ==
    LET parts == Len(ck.dir) + 1
    IN  /\ parts >= 2
        /\ \/ ck.dir[1] = "accounting-global" /\ parts > 2
           \/ ck.dir[1] = "Banking Regulations-test"
           \/ ck.dir[1] \in ONLY_COUNTRY_LIST

RunTo(w, to) == s3Run' = [s3Run EXCEPT ![w].pc = to]
RunEnd(w, ret) == s3Run' = [s3Run EXCEPT ![w].pc = "done", ![w].ret = ret]

\* After the upload of page n (and of its sidecar): the next page, or the end
\* of the run with "success_count > 0".
AfterPage(w, ok) ==
    IF s3Run[w].page < MaxPages
    THEN s3Run' = [s3Run EXCEPT ![w].pc = "put", ![w].page = @ + 1,
                                ![w].ok = ok]
    ELSE s3Run' = [s3Run EXCEPT ![w].pc = "done", ![w].ok = ok,
                                ![w].ret = FinalResult(ok)]

\* A file is uploaded to the source bucket, its message is queued.
SourceUpload ==
    /\ s3Variant = "none"
    /\ \E v \in BucketVariants, d \in BucketDirs, nm \in BucketNames :
          /\ s3Variant' = v
          /\ s3Key' = [dir |-> d, name |-> nm]
          /\ s3Source' = {[dir |-> d, name |-> nm]}
    /\ UNCHANGED <<coreVars, dualVars, nameVars, docVars, metaVars, s3Chunks, s3Sidecars, s3Run>>

\* A worker receives the message and starts process_single_file on its key:
\* the first delivery, or a redelivery after the visibility timeout. The
\* instrumented pipeline and the Lambda begin with the "already chunked"
\* check.
Deliver(w) ==
    /\ s3Variant # "none"
    /\ s3Run[w].pc = "idle"
    /\ s3Run' = [s3Run EXCEPT ![w].key = s3Key,
                   ![w].pc = IF s3Variant = "orchestrator" THEN "download"
                             ELSE "check"]
    /\ UNCHANGED <<coreVars, dualVars, nameVars, docVars, metaVars, s3Variant, s3Key, s3Source, s3Chunks,
                   s3Sidecars>>

\* Step 0 of the instrumented pipeline: the chunk of page 1 under the key of
\* the message exists; the Lambda: any chunk with the prefix of the key.
RunCheck(w) ==
    /\ s3Run[w].pc = "check"
    /\ LET key == s3Run[w].key
           found == IF s3Variant = "instrumented"
                    THEN ChunkKey(s3Variant, key, 1) \in s3Chunks
                    ELSE \E c \in s3Chunks :
                            c.dir = key.dir /\ c.name = key.name
       IN  IF found THEN RunEnd(w, IF s3Variant = "lambda" THEN "empty"
                                   ELSE "true")
           ELSE RunTo(w, "download")
    /\ UNCHANGED <<coreVars, dualVars, nameVars, docVars, metaVars, s3Variant, s3Key, s3Source, s3Chunks,
                   s3Sidecars>>

\* get_object. Orchestrator returns False when the object is missing, the
\* Lambda raises; the instrumented pipeline goes on with an empty stream.
RunDownload(w) ==
    /\ s3Run[w].pc = "download"
    /\ LET there == s3Run[w].key \in s3Source
       IN  CASE s3Variant = "orchestrator" ->
                  IF there
                  THEN s3Run' = [s3Run EXCEPT ![w].pc = "clean",
                                              ![w].data = TRUE]
                  ELSE RunEnd(w, "false")
             [] s3Variant = "instrumented" ->
                  s3Run' = [s3Run EXCEPT ![w].pc = "clean", ![w].data = there]
             [] s3Variant = "lambda" ->
                  IF there
                  THEN s3Run' = [s3Run EXCEPT ![w].pc = "put", ![w].page = 1,
                                              ![w].data = TRUE]
                  ELSE RunEnd(w, "raised")
    /\ UNCHANGED <<coreVars, dualVars, nameVars, docVars, metaVars, s3Variant, s3Key, s3Source, s3Chunks,
                   s3Sidecars>>

\* The filename step. Orchestrator cleans the file name and keeps the
\* cleaned key for the chunks; the instrumented pipeline cleans the key and,
\* when that changes it, goes on to rename the object in the source bucket.
RunClean(w) ==
    /\ s3Run[w].pc = "clean"
    /\ LET key == s3Run[w].key
       IN  IF s3Variant = "orchestrator"
           THEN s3Run' = [s3Run EXCEPT
                    ![w].key = [dir |-> key.dir,
                                name |-> clean_filename(
                                    [dir |-> "", name |-> key.name]).name],
                    ![w].pc = "chunk"]
           ELSE IF clean_filename(key) = key THEN RunTo(w, "chunk")
           ELSE s3Run' = [s3Run EXCEPT ![w].cleaned = clean_filename(key),
                                       ![w].pc = "exists"]
    /\ UNCHANGED <<coreVars, dualVars, nameVars, docVars, metaVars, s3Variant, s3Key, s3Source, s3Chunks,
                   s3Sidecars>>

\* object_exists(SOURCE_BUCKET, cleaned_key): when the target exists the
\* rename is skipped and the run keeps the key of the message.
RunExists(w) ==
    /\ s3Run[w].pc = "exists"
    /\ IF s3Run[w].cleaned \in s3Source THEN RunTo(w, "chunk")
       ELSE RunTo(w, "copy")
    /\ UNCHANGED <<coreVars, dualVars, nameVars, docVars, metaVars, s3Variant, s3Key, s3Source, s3Chunks,
                   s3Sidecars>>

\* copy_object: False (not looked at) when the source object is gone or
\* the request fails.
RunCopy(w, ok) ==
    /\ s3Run[w].pc = "copy"
    /\ s3Source' = IF ok /\ s3Run[w].key \in s3Source
                   THEN s3Source \union {s3Run[w].cleaned} ELSE s3Source
    /\ RunTo(w, "delete")
    /\ UNCHANGED <<coreVars, dualVars, nameVars, docVars, metaVars, s3Variant, s3Key, s3Chunks,
                   s3Sidecars>>

\* delete_object, whose False for a failed request is not looked at
\* either, then "file_key = cleaned_key".
RunDelete(w, ok) ==
    /\ s3Run[w].pc = "delete"
    /\ s3Source' = IF ok THEN s3Source \ {s3Run[w].key} ELSE s3Source
    /\ s3Run' = [s3Run EXCEPT ![w].key = s3Run[w].cleaned, ![w].pc = "chunk"]
    /\ UNCHANGED <<coreVars, dualVars, nameVars, docVars, metaVars, s3Variant, s3Key, s3Chunks,
                   s3Sidecars>>

\* chunk_pdf: no chunks from an empty stream, else one per page.
RunChunk(w) ==
    /\ s3Run[w].pc = "chunk"
    /\ IF s3Run[w].data
       THEN s3Run' = [s3Run EXCEPT ![w].pc = "put", ![w].page = 1]
       ELSE RunEnd(w, "false")
    /\ UNCHANGED <<coreVars, dualVars, nameVars, docVars, metaVars, s3Variant, s3Key, s3Source, s3Chunks,
                   s3Sidecars>>

\* put_object of the chunk of the current page, which may fail. Orchestrator
\* then writes the sidecar, the Lambda looks for it when the root folder is
\* listed, and raises when the upload fails.
RunPut(w, ok) ==
    /\ s3Run[w].pc = "put"
    /\ LET ck == ChunkKey(s3Variant, s3Run[w].key, s3Run[w].page)
       IN  IF ok
           THEN /\ s3Chunks' = s3Chunks \union {ck}
                /\ CASE s3Variant = "orchestrator" ->
                          s3Run' = [s3Run EXCEPT ![w].pc = "sidecar",
                                                 ![w].ok = @ + 1]
                     [] s3Variant = "instrumented" ->
                          AfterPage(w, s3Run[w].ok + 1)
                     [] s3Variant = "lambda" ->
                          IF ck.dir[1] \in METADATA_REQUIRED_FOLDERS
                          THEN s3Run' = [s3Run EXCEPT ![w].pc = "head",
                                                      ![w].ok = @ + 1]
                          ELSE AfterPage(w, s3Run[w].ok + 1)
           ELSE /\ s3Chunks' = s3Chunks
                /\ IF s3Variant = "lambda" THEN RunEnd(w, "raised")
                   ELSE AfterPage(w, s3Run[w].ok)
    /\ UNCHANGED <<coreVars, dualVars, nameVars, docVars, metaVars, s3Variant, s3Key, s3Source,
                   s3Sidecars>>

\* The Lambda's create_metadata_file, first half: head_object on the sidecar
\* key; an existing sidecar is left alone.
RunHead(w) ==
    /\ s3Run[w].pc = "head"
    /\ IF BagIn(ChunkKey(s3Variant, s3Run[w].key, s3Run[w].page), s3Sidecars)
       THEN AfterPage(w, s3Run[w].ok)
       ELSE RunTo(w, "sidecar")
    /\ UNCHANGED <<coreVars, dualVars, nameVars, docVars, metaVars, s3Variant, s3Key, s3Source, s3Chunks,
                   s3Sidecars>>

\* MetadataService.create_metadata_for_file and create_metadata_file
\* ("Always create or replace the metadata file"), resp. the put_object of
\* the Lambda's create_metadata_file: the sidecar is written, unless the
\* chunk key has no attributes or the call fails.
RunSidecar(w, ok) ==
    /\ s3Run[w].pc = "sidecar"
    /\ LET ck == ChunkKey(s3Variant, s3Run[w].key, s3Run[w].page)
       IN  s3Sidecars' =
             IF ok /\ (s3Variant = "lambda" \/ HasAttributes(ck))
             THEN s3Sidecars (+) SetToBag({ck})
             ELSE s3Sidecars
    /\ AfterPage(w, s3Run[w].ok)
    /\ UNCHANGED <<coreVars, dualVars, nameVars, docVars, metaVars, s3Variant, s3Key, s3Source, s3Chunks>>

NextBucket ==
    \/ SourceUpload
    \/ \E w \in Deliveries :
          \/ Deliver(w)
          \/ RunCheck(w)
          \/ RunDownload(w)
          \/ RunClean(w)
          \/ RunExists(w)
          \/ \E ok \in BOOLEAN : RunCopy(w, ok)
          \/ \E ok \in BOOLEAN : RunDelete(w, ok)
          \/ RunChunk(w)
          \/ \E ok \in BOOLEAN : RunPut(w, ok)
          \/ RunHead(w)
          \/ \E ok \in BOOLEAN : RunSidecar(w, ok)

SpecBucket == Init /\ [][NextBucket]_vars

\* ------------------------------------ conversion, watermarks and OCR
DocVariants == {"orchestrator", "async"}

\* A page is pure text, holds an image, or is blank; it may hold a
\* boilerplate term in its text or in the target of a hyperlink.
PageTypes ==
    {[kind |-> "text", mark |-> "none"], [kind |-> "text", mark |-> "term"],
     [kind |-> "text", mark |-> "link"], [kind |-> "image", mark |-> "none"],
     [kind |-> "blank", mark |-> "none"], [kind |-> "blank", mark |-> "link"]}
Docs == UNION {[1 .. n -> PageTypes] : n \in 1 .. MaxDocPages}

\* The downloaded files: a PDF, or a convertible format (.doc, .docx, .txt)
\* for which convert_to_pdf hands back the PDF or None.
DocInputs ==
    {in \in [pages : Docs, format : {"pdf", "docx"}, conv : {"ok", "null"}] :
        in.format = "pdf" => in.conv = "ok"}

\* The pages of the input as a stream: each page knows the page of the input
\* it comes from, whether it is the original page, an OCR text page or an
\* "OCR Failed" page, and which page's recognition result it shows.
PagesOf(in) ==
    [k \in DOMAIN in.pages |->
        [src |-> k, kind |-> in.pages[k].kind, mark |-> in.pages[k].mark,
         form |-> "original", text |-> 0]]

\* The elements of s at the positions in keep, in their order.
RECURSIVE KeepPages(_, _, _)
KeepPages(s, keep, k) ==
    IF k > Len(s) THEN << >>
    ELSE (IF k \in keep THEN <<s[k]>> ELSE << >>) \o KeepPages(s, keep, k + 1)

\* The numbers of a set in descending order ("sort(reverse=True)").
RECURSIVE Descending(_)
Descending(S) ==
    IF S = {} THEN << >>
    ELSE LET m == CHOOSE x \in S : \A y \in S : y <= x
         IN  <<m>> \o Descending(S \ {m})

\* WatermarkService.is_page_empty, after the redactions and the deletion of
\* the links with a term.
is_page_empty(page) == page.kind = "blank"

\* A variant of remove_watermarks that looks for empty pages in every
\* document.
remove_watermarks_always(pages) ==
    LET with_terms == {k \in DOMAIN pages : pages[k].mark = "term"}
        delete == {k \in DOMAIN pages :
                      is_page_empty(pages[k]) /\ k \notin with_terms}
        keep == DOMAIN pages \ delete
    IN  IF keep = {} THEN NoResult
        ELSE [stream |-> KeepPages([k \in DOMAIN pages |->
                             [pages[k] EXCEPT !.mark = "none"]], keep, 1),
              list |-> Descending(delete)]

\* WatermarkService.remove_watermarks: nothing is modified when no page
\* holds a term in its text or in a link, and (None, []) is returned. Else
\* the terms are redacted, the links deleted, and the pages that are empty
\* and had no term in their text are removed; a document left without pages
\* cannot be saved, which ends in the except clause with (None, []).
remove_watermarks(pages) ==
    LET with_terms == {k \in DOMAIN pages : pages[k].mark = "term"}
        modified == \E k \in DOMAIN pages : pages[k].mark \in {"term", "link"}
        delete == {k \in DOMAIN pages :
                      is_page_empty(pages[k]) /\ k \notin with_terms}
        keep == DOMAIN pages \ delete
    IN  IF ~modified \/ keep = {} THEN NoResult
        ELSE [stream |-> KeepPages([k \in DOMAIN pages |->
                             [pages[k] EXCEPT !.mark = "none"]], keep, 1),
              list |-> Descending(delete)]

\* pages_to_ocr: the pages with an image or without text.
pages_to_ocr(pages) ==
    {k \in DOMAIN pages : pages[k].kind \in {"image", "blank"}}

\* What a recognition can do: give text, give text that holds the word
\* "Error", or raise.
OcrOutcomes == {"text", "text with Error", "raise"}

\* OCRService.perform_ocr_on_page: the page number and the text, a failure
\* caught and turned into the text "Error on page ...".
perform_ocr_on_page(k, outcome) ==
    [page |-> k,
     text |-> IF outcome = "raise" THEN "Error on page" ELSE outcome]

\* A variant of the lookup that hands out the results in the order in which
\* the tasks finished.
ocr_results_in_order(arrived, flagged, k) ==
    arrived[Cardinality({j \in flagged : j <= k})]

\* ocr_results[k]: the result the task of page k returned, whenever it
\* finished.
ocr_results(arrived, flagged, k) ==
    CHOOSE r \in {arrived[j] : j \in DOMAIN arrived} : r.page = k

\* A variant of the test that takes no text for a failure.
NeverError(text) == FALSE

\* '"Error" in ocr_text'
IsError(text) == text \in {"Error on page", "text with Error"}

\* The rebuilt document: the pages in their order, a flagged page replaced
\* by the page made from its result.
Rebuild(pages, arrived) ==
    LET flagged == pages_to_ocr(pages)
    IN  [k \in DOMAIN pages |->
           IF k \in flagged
           THEN LET r == ocr_results(arrived, flagged, k)
                IN  [src |-> pages[k].src, kind |-> "text", mark |-> "none",
                     form |-> IF IsError(r.text) THEN "failed" ELSE "ocr",
                     text |-> r.page]
           ELSE pages[k]]

\* Orchestrator._prepare_document_sync. convert_to_pdf hands back a pair,
\* which is never falsy, and remove_watermarks is called without its second
\* argument, which raises: the except clause returns the downloaded bytes
\* as both the original and the processed data, whatever the conversion
\* gave.
prepare_document_sync(in) == [original |-> in, processed |-> in]

\* A file has been downloaded and is handed to the stages.
DocCall ==
    /\ dPc = "idle"
    /\ \E v \in DocVariants, in \in DocInputs :
          /\ dVariant' = v
          /\ dInput' = in
          /\ dPc' = IF v = "orchestrator" THEN "convert" ELSE "prepare"
    /\ UNCHANGED <<coreVars, dualVars, nameVars, bucketVars, metaVars, dStream, dWm, dOcrIn,
                   dPending, dArrived>>

\* process_single_file: a convertible format is converted; None ends the
\* run with False.
DocConvert ==
    /\ dPc = "convert"
    /\ IF dInput.format # "pdf" /\ dInput.conv = "null"
       THEN dPc' = "failed" /\ dStream' = dStream
       ELSE dPc' = "watermark" /\ dStream' = PagesOf(dInput)
    /\ UNCHANGED <<coreVars, dualVars, nameVars, bucketVars, metaVars, dVariant, dInput, dWm,
                   dOcrIn, dPending, dArrived>>

\* process_single_file: remove_watermarks; its stream replaces pdf_stream
\* when there is one.
DocWatermark ==
    /\ dPc = "watermark"
    /\ dWm' = remove_watermarks(dStream)
    /\ dStream' = IF dWm'.stream # "None" THEN dWm'.stream ELSE dStream
    /\ dPc' = "ocr"
    /\ UNCHANGED <<coreVars, dualVars, nameVars, bucketVars, metaVars, dVariant, dInput, dOcrIn,
                   dPending, dArrived>>

\* apply_ocr_to_pdf, first half: the flagged pages are found and their tasks
\* submitted; without a flagged page it returns (None, []) and the run goes
\* on to chunking with its stream.
OcrSubmit ==
    /\ dPc = "ocr"
    /\ dOcrIn' = dStream
    /\ dPending' = pages_to_ocr(dStream)
    /\ dArrived' = << >>
    /\ dPc' = IF pages_to_ocr(dStream) = {} THEN "chunking" ELSE "tasks"
    /\ UNCHANGED <<coreVars, dualVars, nameVars, bucketVars, metaVars, dVariant, dInput, dStream,
                   dWm>>

\* The task of one flagged page finishes.
OcrTask(k, outcome) ==
    /\ dPc = "tasks"
    /\ k \in dPending
    /\ dPending' = dPending \ {k}
    /\ dArrived' = Append(dArrived, perform_ocr_on_page(k, outcome))
    /\ UNCHANGED <<coreVars, dualVars, nameVars, bucketVars, metaVars, dVariant, dInput, dPc,
                   dStream, dWm, dOcrIn>>

\* apply_ocr_to_pdf, second half: every result is in, the document is
\* rebuilt and replaces pdf_stream; the run goes on to chunking.
OcrRebuild ==
    /\ dPc = "tasks"
    /\ dPending = {}
    /\ dStream' = Rebuild(dOcrIn, dArrived)
    /\ dPc' = "chunking"
    /\ UNCHANGED <<coreVars, dualVars, nameVars, bucketVars, metaVars, dVariant, dInput, dWm,
                   dOcrIn, dPending, dArrived>>

\* process_single_file_async, stage 2: the preparation step; its first
\* value is the downloaded data, so "if not original_pdf_data" does not end
\* the run and stage 3 is handed the second.
DocPrepare ==
    /\ dPc = "prepare"
    /\ IF prepare_document_sync(dInput).original = NoInput
       THEN dPc' = "failed" /\ dStream' = dStream
       ELSE /\ dPc' = "enhance"
            /\ dStream' = PagesOf(prepare_document_sync(dInput).processed)
    /\ UNCHANGED <<coreVars, dualVars, nameVars, bucketVars, metaVars, dVariant, dInput, dWm,
                   dOcrIn, dPending, dArrived>>

NextDoc ==
    \/ DocCall
    \/ DocConvert
    \/ DocWatermark
    \/ OcrSubmit
    \/ \E k \in 1 .. MaxDocPages, outcome \in OcrOutcomes : OcrTask(k, outcome)
    \/ OcrRebuild
    \/ DocPrepare

SpecDoc == Init /\ [][NextDoc]_vars

\* ------------------------------------------------- metadata of a key
MetaImpls == {"ec2", "lambda"}

\* The first segments of the keys: one root folder of each branch, a root
\* that no branch names, and a file at the top of the bucket.
MetaRoots ==
    {"test", "accounting-global", "Banking Regulations-test",
     "Banking-Regulations-Bahrain", "Direct Taxes", "Indirect Taxes",
     "usecase-reports-4", "misc", "notice.pdf"}
MetaFolders == {"Bahrain", "India"}
MetaLast == {"notice.pdf", "Bahrain"}

\* The keys: a single segment, or a root, folders and a last segment.
MetaKeys ==
    {<<r>> : r \in MetaRoots} \union
    {<<r>> \o mid \o <<l>> :
        r \in MetaRoots,
        mid \in UNION {[1 .. j -> MetaFolders] : j \in 0 .. MaxSegments - 2},
        l \in MetaLast}

\* os.path.splitext(segment)[0]
splitext0(segment) == IF segment = "notice.pdf" THEN "notice" ELSE segment

\* The fields every branch of the country layout sets.
CountryLayout(parts, base) ==
    LET n == Len(parts)
    IN  IF n > 1
        THEN [base EXCEPT
                !.country = parts[2],
                !.document_type = IF n > 3 THEN parts[3] ELSE Absent,
                !.document_category = IF n > 4 THEN parts[4] ELSE Absent,
                !.document_sub_category = IF n > 5 THEN parts[5] ELSE Absent,
                !.document_name = splitext0(parts[n])]
        ELSE base

IndirectTaxes(parts, base) ==
    LET n == Len(parts)
    IN  IF n > 1
        THEN [base EXCEPT
                !.country = parts[2],
                !.document_type = IF n > 3 THEN parts[3] ELSE Absent,
                !.State = IF n > 4 THEN parts[4] ELSE Absent,
                !.State_category = IF n > 5 THEN parts[5] ELSE Absent,
                !.document_name = splitext0(parts[n])]
        ELSE base

UsecaseReports(parts, base) ==
    LET n == Len(parts)
    IN  IF n > 1
        THEN [base EXCEPT
                !.country = parts[2],
                !.year = IF n > 2 THEN parts[3] ELSE Absent,
                !.document_name = splitext0(parts[n])]
        ELSE base

GlobalLayout(parts, base) ==
    LET n == Len(parts)
    IN  IF n > 1
        THEN [base EXCEPT
                !.Standard_type = IF n > 2 THEN parts[2] ELSE Absent,
                !.document_type = IF n > 3 THEN parts[3] ELSE Absent,
                !.document_name = splitext0(parts[n])]
        ELSE base

AccountingGlobal(parts, base) ==
    LET n == Len(parts)
    IN  IF n > 1
        THEN [base EXCEPT
                !.complexity = parts[2],
                !.Standard_type = IF n > 2 THEN parts[3] ELSE Absent,
                !.document_type = IF n > 3 THEN parts[4] ELSE Absent,
                !.document_name = splitext0(parts[n])]
        ELSE base

\* The branch of the Bahrain folders: the third segment goes to the field
\* "third", the name is set when the key has more than min_name segments.
Bahrain(parts, base, third, min_name) ==
    LET n == Len(parts)
        filled == [base EXCEPT
                     !.country = parts[2],
                     !.document_type = IF n > 4 THEN parts[4] ELSE Absent,
                     !.document_category = IF n > 5 THEN parts[5] ELSE Absent,
                     !.document_sub_category =
                         IF n > 6 THEN parts[6] ELSE Absent,
                     !.document_name = IF n > min_name THEN splitext0(parts[n])
                                       ELSE Absent]
    IN  IF n > 2
        THEN IF third = "complexity"
             THEN [filled EXCEPT !.complexity = parts[3]]
             ELSE [filled EXCEPT !.volume = parts[3]]
        ELSE base

COUNTRY_FOLDERS ==
    {"accounting-standards", "commercial-laws", "Banking Regulations",
     "Direct Taxes", "Capital Market Regulations", "Auditing Standards",
     "Insurance", "Labour Law"}

\* ChunkingService.extract_metadata: the branch of the root folder, then the
\* page number and the number of pages. No chunk_s3_uri is set.
extract_metadata(parts, page_number, total_pages) ==
    LET n == Len(parts)
        folder == parts[1]
        base == [NoMeta EXCEPT !.standard_type = folder]
        m == CASE folder \in {"Auditing-global", "Finance Tools", "GIFT City",
                              "test"} -> GlobalLayout(parts, base)
               [] folder = "accounting-global" -> AccountingGlobal(parts, base)
               [] folder = "Banking Regulations-test" /\ n > 1
                  /\ parts[2] = "Bahrain" ->
                      Bahrain(parts, base, "complexity", 2)
               [] folder = "Banking-Regulations-Bahrain" /\ n > 1
                  /\ parts[2] = "Bahrain" -> Bahrain(parts, base, "volume", 2)
               [] folder \in COUNTRY_FOLDERS -> CountryLayout(parts, base)
               [] folder = "Indirect Taxes" -> IndirectTaxes(parts, base)
               [] folder = "usecase-reports-4" -> UsecaseReports(parts, base)
               [] OTHER ->
                      [base EXCEPT
                         !.country = IF n > 1 THEN parts[2] ELSE Absent,
                         !.document_name = splitext0(parts[n])]
    IN  [m EXCEPT !.page_number = page_number, !.total_pages = total_pages]

\* The Lambda's extract_metadata_from_source_key raises IndexError when the
\* key is the single segment 'Banking Regulations-test': parts[1] is read
\* without a look at the length.
LambdaRaises(parts) ==
    parts[1] = "Banking Regulations-test" /\ Len(parts) = 1

\* The Lambda's extract_metadata_from_source_key: the same table without
\* 'test', without the folder 'Banking-Regulations-Bahrain' and without a
\* generic branch; in the Bahrain branch the name needs more than 7
\* segments.
extract_metadata_from_source_key(parts) ==
    LET folder == parts[1]
        base == [NoMeta EXCEPT !.standard_type = folder]
    IN  CASE folder \in {"Auditing-global", "Finance Tools", "GIFT City"} ->
               GlobalLayout(parts, base)
          [] folder = "accounting-global" -> AccountingGlobal(parts, base)
          [] folder = "Banking Regulations-test" /\ parts[2] = "Bahrain" ->
               Bahrain(parts, base, "complexity", 7)
          [] folder \in COUNTRY_FOLDERS -> CountryLayout(parts, base)
          [] folder = "Indirect Taxes" -> IndirectTaxes(parts, base)
          [] folder = "usecase-reports-4" -> UsecaseReports(parts, base)
          [] OTHER -> base

\* The chunk of page n of the document of a key: its key, built from the
\* folders and the base name of the file (here names that clean_filename and
\* the replacement of blanks leave alone), and its metadata. The EC2
\* pipeline takes the metadata of chunk_pdf as they are, the Lambda adds the
\* page number and the address of the chunk.
ChunkOf(impl, parts, n, total) ==
    LET ck == [bucket |-> "CHUNKED_BUCKET",
               dir |-> SubSeq(parts, 1, Len(parts) - 1),
               name |-> splitext0(parts[Len(parts)]), page |-> n]
    IN  [key |-> ck,
         metadata |->
            IF impl = "ec2" THEN extract_metadata(parts, n, total)
            ELSE [extract_metadata_from_source_key(parts) EXCEPT
                     !.chunk_s3_uri = ck, !.page_number = n]]

\* The metadata of a key are derived.
MetaCall ==
    /\ mPc = "idle"
    /\ \E impl \in MetaImpls, key \in MetaKeys :
          /\ mImpl' = impl
          /\ mKey' = key
          /\ IF impl = "lambda" /\ LambdaRaises(key)
             THEN mPc' = "raised" /\ mOut' = mOut
             ELSE /\ mPc' = "derived"
                  /\ mOut' = IF impl = "ec2" THEN extract_metadata(key, 1, 1)
                             ELSE extract_metadata_from_source_key(key)
    /\ UNCHANGED <<coreVars, dualVars, nameVars, bucketVars, docVars, mChunks>>

\* chunk_pdf and the upload loop of process_single_file, resp. the page
\* loop of the Lambda: one chunk per page of a document of total pages.
MetaChunk(total) ==
    /\ mPc = "derived"
    /\ mChunks' = [n \in 1 .. total |-> ChunkOf(mImpl, mKey, n, total)]
    /\ mPc' = "chunked"
    /\ UNCHANGED <<coreVars, dualVars, nameVars, bucketVars, docVars, mImpl, mKey, mOut>>

NextMeta ==
    \/ MetaCall
    \/ \E total \in 1 .. MaxPages : MetaChunk(total)

SpecMeta == Init /\ [][NextMeta]_vars

\* ------------------------------------------------ dual-stream chunking
\* config.py
CHUNKED_BUCKET == "chunked-rules-repository"
DIRECT_CHUNKED_BUCKET == "rules-repository-alpha"

\* The original document: pages 1 .. n.
DualOriginals == {[k \in 1 .. n |-> k] : n \in 1 .. MaxDualPages}

\* The pages of s at the positions in keep, in their order.
RECURSIVE DualKeep(_, _, _)
DualKeep(s, keep, k) ==
    IF k > Len(s) THEN << >>
    ELSE (IF k \in keep THEN <<s[k]>> ELSE << >>) \o DualKeep(s, keep, k + 1)

\* What the chunker of the processed stream can be handed for an original:
\* the same pages, the pages that are left when watermark removal deleted
\* empty ones (doc.delete_page), or no data. OCR and PDF-plumber put one
\* page in the place of each page.
Enhancements(orig) == {DualKeep(orig, keep, 1) : keep \in SUBSET DOMAIN orig}

DualKeys == [dir : BucketDirs, name : BucketNames]

\* f"s3://{bucket}/{folder_path}/{normalized_base_filename}_page_{n}{suffix}.pdf"
DualUri(bucket, key, n, suffix) ==
    [bucket |-> bucket, dir |-> key.dir, name |-> replace_blank(key.name),
     page |-> n, suffix |-> suffix]

\* ChunkingService.chunk_pdf_processed: one chunk per page of
\* data_to_chunk, which is the enhanced data unless that is empty; each with
\* its own URI in CHUNKED_BUCKET and the URI of the direct chunk of the same
\* page number.
chunk_pdf_processed(pdf_data, key, enhanced_pdf_data) ==
    LET data_to_chunk == IF enhanced_pdf_data # << >> THEN enhanced_pdf_data
                         ELSE pdf_data
    IN  [page_num \in DOMAIN data_to_chunk |->
            [page_number |-> page_num,
             content |-> data_to_chunk[page_num],
             chunk_type |-> "processed",
             chunk_s3_uri_processed |->
                 DualUri(CHUNKED_BUCKET, key, page_num, "_processed"),
             chunk_s3_uri |-> DualUri(DIRECT_CHUNKED_BUCKET, key, page_num, "")]]

\* ChunkingService.chunk_pdf_direct: one chunk per page of the original
\* data, with its URI in DIRECT_CHUNKED_BUCKET.
chunk_pdf_direct(pdf_data, key) ==
    [page_num \in DOMAIN pdf_data |->
        [page_number |-> page_num,
         content |-> pdf_data[page_num],
         chunk_type |-> "direct",
         chunk_s3_uri |-> DualUri(DIRECT_CHUNKED_BUCKET, key, page_num, "")]]

\* process_single_file_async, stage 4: both chunking tasks are created with
\* the original data, the key and the enhanced data of stage 3. The
\* documents are readable PDFs.
DualStart ==
    /\ uPc = "idle"
    /\ \E key \in DualKeys, orig \in DualOriginals :
          \E enh \in Enhancements(orig) :
             /\ uKey' = key
             /\ uOriginal' = orig
             /\ uEnhanced' = enh
    /\ uPc' = "chunking"
    /\ uDone' = {}
    /\ uProcessed' = << >>
    /\ uDirect' = << >>
    /\ UNCHANGED <<coreVars, nameVars, bucketVars, docVars, metaVars>>

\* processed_task is done.
DualProcessed ==
    /\ uPc = "chunking" /\ "processed" \notin uDone
    /\ uProcessed' = chunk_pdf_processed(uOriginal, uKey, uEnhanced)
    /\ uDone' = uDone \cup {"processed"}
    /\ UNCHANGED <<coreVars, nameVars, bucketVars, docVars, metaVars,
                   uPc, uKey, uOriginal, uEnhanced, uDirect>>

\* direct_task is done.
DualDirect ==
    /\ uPc = "chunking" /\ "direct" \notin uDone
    /\ uDirect' = chunk_pdf_direct(uOriginal, uKey)
    /\ uDone' = uDone \cup {"direct"}
    /\ UNCHANGED <<coreVars, nameVars, bucketVars, docVars, metaVars,
                   uPc, uKey, uOriginal, uEnhanced, uProcessed>>

\* asyncio.gather hands back both lists; the run returns True.
DualGather ==
    /\ uPc = "chunking" /\ uDone = {"processed", "direct"}
    /\ uPc' = "gathered"
    /\ UNCHANGED <<coreVars, nameVars, bucketVars, docVars, metaVars, uDone,
                   uKey, uOriginal, uEnhanced, uProcessed, uDirect>>

NextDual ==
    \/ DualStart
    \/ DualProcessed
    \/ DualDirect
    \/ DualGather

SpecDual == Init /\ [][NextDual]_vars

\* ------------------------------------------------------------ properties
\* The caller is between a submission and the end of the polling of it.
InJobCycle(c) == pc[c] \in {"start", "conf_sleep", "retry", "poll", "poll_sleep"}
\* The caller is within a sync call that has not acquired the lock.
Waiting(c) ==
    pc[c] \in {"acq_open", "acq_flock", "acq_read", "acq_remove", "wait_sleep",
               "wait_woke"}
\* The lock file at the path carries a timestamp older than the window.
StaleLock == path # NoFile /\ stamp[path] >= 0 /\ now - stamp[path] > timeout
\* The lock file at the path carries a timestamp within the window.
FreshLock == path # NoFile /\ stamp[path] >= 0 /\ now - stamp[path] <= timeout

\* C1: two sync calls for one knowledge base never hold its lock at the
\* same time, so a second caller never reaches a submission while the first
\* holds the lock.
LockMutualExclusion == Cardinality({c \in Callers : Holds(c)}) <= 1

\* C2: every start_ingestion_job call, and all the polling of the job it
\* starts, happens while the caller holds flock on the fd it registered in
\* _in_memory_locks.
SubmitsUnderLock ==
    \A c \in Callers : InJobCycle(c) => fd[c] # NoFile /\ flockOwner[fd[c]] = c
\* The second job of sync_and_handle_failed_files is polled while the rival
\* waits for the lock.
SubmitsUnderLockWitness ==
    /\ pc[Syncer] = "poll_sleep"
    /\ stage[Syncer] = 2
    /\ hist[Syncer].submitted = 2
    /\ pc[Rival] = "wait_sleep"

\* C3: once a sync call is over, whatever its outcome, the caller holds no
\* lock, and a flock attempt fails only while some other caller is between
\* its own successful flock and its release.
ReleasedAfterSync ==
    /\ [](\A c \in Callers : pc[c] \in {"idle", "done"} =>
             fd[c] = NoFile /\ ~Holds(c))
    /\ [][\A d \in Callers :
            (pc[d] = "acq_flock" /\ pc'[d] = "acq_read") =>
                \E c \in Callers \ {d} :
                    ~Waiting(c) /\ pc[c] \notin {"idle", "done", "rel_unlink"}]_vars
\* The syncer's call ended with an exception and the rival then got the lock.
ReleasedAfterSyncWitness ==
    /\ pc[Syncer] = "done"
    /\ result[Syncer] = "EXCEPTION"
    /\ hist[Syncer].submitted = 1
    /\ pc[Rival] = "start"
    /\ Holds(Rival)

\* C4: a call that ends LOCK_TIMEOUT has submitted no job and has not removed
\* a lock file on which another caller holds the lock.
LockTimeoutTouchesNothing ==
    \A c \in Callers :
        (pc[c] = "done" /\ result[c] = "LOCK_TIMEOUT") =>
            hist[c].submitted = 0 /\ ~hist[c].unlinkedHeld

\* C5 as claimed: an acquire that found the lock stale does not return false.
StaleReclaimAcquires ==
    \A c \in Callers : pc[c] = "wait_sleep" => ~hist[c].sawStale
\* C5 as amended: an acquire that reads a stale timestamp goes on to remove
\* the lock file and then attempts the acquisition again from os.open, or
\* returns false when the file is gone by then; one that reads a timestamp
\* within the window returns false; reading changes nothing of the lock
\* file, its owner or its content, and removing leaves every flock in place.
StaleReclaimRetries ==
    [][\A c \in Callers :
         /\ (pc[c] = "acq_read" /\ pc'[c] \notin {"acq_read", "idle"}) =>
                /\ UNCHANGED lockVars
                /\ StaleLock => pc'[c] = "acq_remove"
                /\ FreshLock => pc'[c] = "wait_sleep"
         /\ (pc[c] = "acq_remove" /\ pc'[c] \notin {"acq_remove", "idle"}) =>
                /\ path' = NoFile
                /\ UNCHANGED flockOwner
                /\ path # NoFile => pc'[c] = "acq_open"
                /\ path = NoFile => pc'[c] = "wait_sleep"]_vars
\* A caller acquired the lock by reclaiming a stale one.
StaleReclaimWitness ==
    \E c \in Callers : pc[c] = "acq_write" /\ hist[c].sawStale

\* C6: after the holder of a lock died, nobody acquires the lock before the
\* staleness window has passed since its recorded acquisition.
OrphanedLockStaysHeld ==
    \A d \in Callers :
        (pc[d] = "acq_write" /\ orphaned[fd[d]] /\ stamp[fd[d]] >= 0) =>
            now - stamp[fd[d]] > timeout

\* C7: when the first job of sync_and_handle_failed_files failed with
\* token-limit reasons, at the return every file they name has left the
\* chunked bucket and is in the unprocessed bucket under to_further_process/,
\* and a second job was submitted.
QuarantineCorrectness ==
    \A c \in Callers :
        (pc[c] = "done" /\ entry[c] = "handle" /\ failed1[c] # << >>) =>
            /\ \A n \in 1..Len(failed1[c]) :
                  /\ failed1[c][n] \notin chunked
                  /\ DestinationKey(failed1[c][n]) \in unprocessed
            /\ hist[c].submitted = 2

\* C9: sync_and_handle_failed_files returns COMPLETE only if a job it
\* submitted was polled COMPLETE.
CompleteMeansJobCompleted ==
    \A c \in Callers :
        (pc[c] = "done" /\ entry[c] = "handle" /\ result[c] = "COMPLETE") =>
            hist[c].sawComplete

\* The last status polled by wait_for_ingestion_job.
LastSeen == wSeen[Len(wSeen)]
WaitOver == wPc \in {"returned", "raised"}
\* Reason n of rs is a str that the token-limit pattern matches.
MatchedAt(rs, n) == rs[n].isStr /\ PatternMatches(rs[n].words)
MatchedFiles(rs) ==
    {MatchGroup1(rs[n].words) : n \in {m \in 1..Len(rs) : MatchedAt(rs, m)}}
\* The first reason of rs that names file f.
FirstSeen(rs, f) ==
    CHOOSE n \in 1..Len(rs) :
        /\ MatchedAt(rs, n) /\ MatchGroup1(rs[n].words) = f
        /\ \A m \in 1..(n - 1) :
              ~(MatchedAt(rs, m) /\ MatchGroup1(rs[m].words) = f)
\* fs lists every matched file of rs once, in first-seen order.
DistinctFirstSeen(fs, rs) ==
    /\ {fs[n] : n \in 1..Len(fs)} = MatchedFiles(rs)
    /\ \A i, j \in 1..Len(fs) :
          i < j => fs[i] # fs[j] /\ FirstSeen(rs, fs[i]) < FirstSeen(rs, fs[j])

\* C8: for a job polled FAILED the call returns FAILED_TOKEN_ERROR with the
\* distinct matched files in first-seen order when a reason matches, and
\* FAILED_OTHER_ERROR with the raw reasons when none does.
FailedJobResult ==
    (WaitOver /\ wSeen # << >> /\ LastSeen = "FAILED") =>
        /\ wPc = "returned"
        /\ wOut.status # "COMPLETE"
        /\ IF MatchedFiles(wReasons) # {}
           THEN /\ wOut.status = "FAILED_TOKEN_ERROR"
                /\ DistinctFirstSeen(wOut.failed_files, wReasons)
           ELSE /\ wOut.status = "FAILED_OTHER_ERROR"
                /\ wOut.message = wReasons
\* Three matching reasons that name two files.
FailedJobResultWitness ==
    /\ wPc = "returned"
    /\ wOut.status = "FAILED_TOKEN_ERROR"
    /\ Len(wReasons) = 3
    /\ \A n \in 1..3 : MatchedAt(wReasons, n)
    /\ Len(wOut.failed_files) = 2

\* C10: the polling loop polls at most max_attempts times, polls nothing
\* after a COMPLETE or FAILED status, can always go on until it is over, and
\* raises when the last poll left the job non-terminal.
PollingTerminates ==
    /\ wAttempt <= max_attempts
    /\ Len(wSeen) = wAttempt
    /\ wPc = "poll" => wAttempt < max_attempts
    /\ \A n \in 1..(Len(wSeen) - 1) : wSeen[n] \in {"STARTING", "IN_PROGRESS"}
    /\ (wSeen # << >> /\ LastSeen \in {"COMPLETE", "FAILED"}) => wPc = "returned"
    /\ ~WaitOver => ENABLED NextWait
    /\ (WaitOver /\ LastSeen \in {"STARTING", "IN_PROGRESS"}) =>
           /\ wAttempt = max_attempts
           /\ wFailed = << >> => wPc = "raised"
\* Every attempt found the job in progress: the timeout error is raised.
PollingTerminatesWitness ==
    /\ wPc = "raised"
    /\ wAttempt = max_attempts
    /\ LastSeen = "IN_PROGRESS"

\* The call is over or in its finally clause.
Ending(c) == pc[c] \in {"rel_unlock", "rel_unlink", "done"}

\* C11: no sync call ends on the conflict answer of start_ingestion_job
\* other than with TIMEOUT after max_wait_attempts retries; a call that ends
\* TIMEOUT has polled no job, and an error answer ends the call at once.
ConflictIsRetried ==
    \A c \in Callers :
        Ending(c) =>
            /\ hist[c].startError # "conflict"
            /\ result[c] = "TIMEOUT" => hist[c].submitted = 0
            /\ hist[c].startError = "error" =>
                  result[c] \in {"EXCEPTION", "Error",
                                 "Completed with Errors and Unprocessed Files"}

\* get_all_pending_folders(): the roots with count > 0 in the state file.
PendingFolders == {r \in Roots : stateFile[r] > 0}
NoCallRunning == \A w \in Workers : tPc[w] = "idle"

\* C12: once no call is running, every root has had calls \div threshold
\* syncs triggered and its persisted count is calls modulo threshold.
NoLostIncrement ==
    NoCallRunning =>
        \A r \in Roots :
            /\ syncs[r] = calls[r] \div SYNC_THRESHOLD
            /\ stateFile[r] = calls[r] % SYNC_THRESHOLD

\* C13: the save of a call adds exactly 1 to the persisted count of its
\* root; the persisted count is 0 when the call enters the sync; a call
\* returns true exactly when it triggered a sync; and with no call running
\* every persisted count is below the threshold.
IncrementThenMaybeSync ==
    /\ [][\A w \in Workers :
            (tPc[w] = "save" /\ tPc'[w] = "check") =>
                stateFile'[tRoot[w]] = stateFile[tRoot[w]] + 1]_vars
    /\ [][\A w \in Workers :
            (tPc[w] = "check" /\ tPc'[w] = "sync") => stateFile'[tRoot[w]] = 0]_vars
    /\ [][\A w \in Workers :
            (tPc[w] = "sync" /\ tPc'[w] = "idle") => tRet'[w] = "true"]_vars
    /\ [](NoCallRunning => \A r \in Roots : stateFile[r] < SYNC_THRESHOLD)

\* C14: a process_folder run that ends while no increment is in progress
\* leaves no root listed by get_all_pending_folders without a sync triggered
\* since its last increment.
FlushCoversPending ==
    [][(bPc = "running" /\ bPc' = "done" /\ NoCallRunning) =>
          \A r \in Roots : stateFile'[r] > 0 => syncedSince'[r]]_vars

\* The run is over and its result not yet taken by the worker.
RunOver(v) == pipe.pc = "returned" /\ pipe.variant = v
\* The positions in the log of the run where the stage st took effect.
LogAt(st) == {i \in DOMAIN pipe.log : pipe.log[i].stage = st}

\* C15: a run of Orchestrator.process_single_file or of
\* process_single_file_async that returns True has uploaded a chunk, and a
\* run whose download failed after the retries, whose conversion gave None
\* or whose chunking gave no chunks returns False.
SuccessNeedsUpload ==
    \A v \in {"orchestrator", "async"} :
        RunOver(v) =>
            /\ pipe.result = "true" => LogAt("upload") # {}
            /\ pipe.why \in {"download", "notfound", "conversion", "nochunks"} =>
                  pipe.result = "false"

\* C15 witness: a run that returns True although one of its uploads failed.
SuccessNeedsUploadWitness ==
    /\ RunOver("orchestrator")
    /\ pipe.result = "true"
    /\ LogAt("upload_failed") # {}

\* C16: a run of process_single_file ends with True or False, whatever stage
\* failed, and the worker loop goes on to its next poll.
AlwaysBoolean ==
    /\ [](pipe.pc = "returned" => pipe.result \in {"true", "false"})
    /\ [][pipe.pc = "returned" => (pipe'.pc = "idle" /\ pipeRuns' = pipeRuns + 1)]_vars

\* C16 witness: a stage of Orchestrator.process_single_file raised after the
\* download, and the worker is back at its poll.
AlwaysBooleanWitness ==
    /\ pipe.pc = "returned"
    /\ pipe.variant = "orchestrator"
    /\ pipe.why = "exception"
    /\ LogAt("download") # {}
    /\ pipeRuns > 0

\* The place of a stage in the order download, convert, watermark removal,
\* OCR, filename cleaning, chunking, upload and sidecar of each chunk, sync.
Rank(st) ==
    CASE st = "download" -> 1
      [] st = "convert" -> 2
      [] st = "watermark" -> 3
      [] st = "ocr" -> 4
      [] st = "clean" -> 5
      [] st = "chunk" -> 6
      [] st \in {"upload", "upload_failed", "sidecar"} -> 7
      [] OTHER -> 8

\* C17: in every run the stages take effect in the order of Rank, a sidecar
\* follows the successful upload of its chunk, and the sync follows the
\* upload attempt of every chunk.
StageOrder ==
    /\ \A i, k \in DOMAIN pipe.log :
          i < k => Rank(pipe.log[i].stage) <= Rank(pipe.log[k].stage)
    /\ \A k \in LogAt("sidecar") :
          \E i \in LogAt("upload") : i < k /\ pipe.log[i].chunk = pipe.log[k].chunk
    /\ \A k \in LogAt("sync") :
          Cardinality({i \in LogAt("upload") \cup LogAt("upload_failed") : i < k})
              = pipe.chunks

RoundOver == qPc = "collect"
\* The message has a record that announces a created, supported object of
\* the source bucket.
HasOk(m) == \E i \in Records(m) : qBody[m].records[i] = "ok"

\* C19: when a worker is through with a batch, every message with a run
\* that returned False has been deleted.
FailedStillAcked ==
    RoundOver =>
        \A m \in Batch :
            (\E i \in 1 .. MaxRecords : qRun[m][i] = "false") => m \in qDeleted

\* C20: no run is ever started for a record that is not a creation event of
\* a supported file in the source bucket, and when a worker is through with a
\* batch every message without such a record (no JSON and no Records
\* included) has been deleted.
SkippedAreAcked ==
    /\ \A m \in Batch : \A i \in Records(m) :
          qBody[m].records[i] # "ok" => qRun[m][i] = "none"
    /\ RoundOver => \A m \in Batch : ~HasOk(m) => m \in qDeleted

\* The file name holds the removed term (in any case), a quote, a bracket
\* or a parenthesis.
HasForbidden(s) ==
    \E k \in DOMAIN s :
        \/ s[k] \in {"'", "\"", "rsquo", "[", "]", "(", ")"}
        \/ TmiEnd(s, k) # 0

\* C28: cleaning is idempotent, and the cleaned file name holds neither the
\* removed term nor a quote, a bracket or a parenthesis: once a key has been
\* cleaned and the result cleaned again, both results are the same key and
\* its file name holds none of these.
CleanIsIdempotent ==
    nPc = "twice" => nTwice = nOnce /\ ~HasForbidden(nOnce.name)

\* The chunk keys of one run on the key of the message that uploads every
\* page: one per page, under the cleaned name.
SingleRunKeys ==
    LET cleaned == IF s3Variant = "lambda" THEN s3Key
                   ELSE clean_filename(s3Key)
    IN  {ChunkKey(s3Variant, cleaned, n) : n \in 1 .. MaxPages}

\* C21: the pipeline is idempotent under redelivery: whatever runs the
\* deliveries of one message have started, one after the other or at the
\* same time, the chunk bucket holds no key that a single run would not
\* write.
RedeliveryAddsNoChunk ==
    s3Variant \in {"orchestrator", "instrumented"}
        => s3Chunks \subseteq SingleRunKeys

\* Run w is about to call the creation of the sidecar of its current chunk:
\* MetadataService.create_metadata_for_file, resp. the Lambda's
\* create_metadata_file (which begins with head_object).
CreatesSidecar(w) ==
    \/ s3Run[w].pc = "head"
    \/ s3Run[w].pc = "sidecar" /\ s3Variant = "orchestrator"

\* C22: sidecar creation is idempotent: a call that finds the sidecar of its
\* chunk in the bucket leaves it as it is, it is not written again.
SidecarLeftAlone ==
    [][\A w \in Deliveries :
          /\ CreatesSidecar(w)
          /\ BagIn(ChunkKey(s3Variant, s3Run[w].key, s3Run[w].page),
                   s3Sidecars)
          /\ s3Run'[w] # s3Run[w]
          => s3Sidecars' = s3Sidecars]_vars

\* The results that have come in for page k.
ResultsOf(k) == {dArrived[j] : j \in {i \in DOMAIN dArrived : dArrived[i].page = k}}

\* C23: when apply_ocr_to_pdf has rebuilt a document with flagged pages, the
\* result has as many pages as the document it was handed, and position k
\* holds the replacement made from the result of page k when page k was
\* flagged and the page it was handed otherwise, in whatever order the tasks
\* finished.
OcrKeepsPositions ==
    dPc = "chunking" /\ pages_to_ocr(dOcrIn) # {} =>
        /\ Len(dStream) = Len(dOcrIn)
        /\ \A k \in DOMAIN dOcrIn :
              IF k \in pages_to_ocr(dOcrIn)
              THEN /\ dStream[k].form \in {"ocr", "failed"}
                   /\ dStream[k].text = k
                   /\ dStream[k].src = dOcrIn[k].src
              ELSE dStream[k] = dOcrIn[k]

\* Three pages, the first and the last flagged, the task of the last one
\* finished first.
OcrKeepsPositionsWitness ==
    /\ dPc = "chunking"
    /\ Len(dOcrIn) = 3
    /\ pages_to_ocr(dOcrIn) = {1, 3}
    /\ Len(dArrived) = 2
    /\ dArrived[1].page = 3
    /\ dArrived[1].text # dArrived[2].text

\* The results, had no recognition raised.
Healed(arrived) ==
    [j \in DOMAIN arrived |->
        IF arrived[j].text = "Error on page"
        THEN [arrived[j] EXCEPT !.text = "text"] ELSE arrived[j]]

\* C24: a recognition that fails on a flagged page is contained: the run is
\* not failed and goes on to chunking with a document of as many pages, the
\* failed page's position holds an "OCR Failed" page, and every other page is
\* what it would have been had no recognition failed.
OcrFailureContained ==
    (\E j \in DOMAIN dArrived : dArrived[j].text = "Error on page") =>
        /\ dPc \in {"tasks", "chunking"}
        /\ dPc = "chunking" =>
              /\ Len(dStream) = Len(dOcrIn)
              /\ \A k \in DOMAIN dOcrIn :
                    IF \E r \in ResultsOf(k) : r.text = "Error on page"
                    THEN /\ dStream[k].form = "failed"
                         /\ dStream[k].src = dOcrIn[k].src
                    ELSE dStream[k] = Rebuild(dOcrIn, Healed(dArrived))[k]

\* Three pages: the recognition of one failed, that of another gave text,
\* the third was not flagged.
OcrFailureContainedWitness ==
    /\ dPc = "chunking"
    /\ Len(dOcrIn) = 3
    /\ Cardinality(pages_to_ocr(dOcrIn)) = 2
    /\ \E i, j \in DOMAIN dArrived :
          dArrived[i].text = "Error on page" /\ dArrived[j].text = "text"

\* No page of the input holds a term, in its text or in a link.
NoTerm == \A k \in DOMAIN dInput.pages : dInput.pages[k].mark = "none"

\* C25: when no page holds a boilerplate term, remove_watermarks returns
\* neither a stream nor removed pages, and the run goes on with the pages it
\* had: none is dropped, blank ones included.
NoTermNoChange ==
    dVariant = "orchestrator" /\ dPc \in {"ocr", "tasks"} /\ NoTerm =>
        /\ dWm = NoResult
        /\ dStream = PagesOf(dInput)

\* A document without terms and with a blank page has passed the watermark
\* stage.
NoTermNoChangeWitness ==
    /\ dVariant = "orchestrator"
    /\ dPc = "ocr"
    /\ NoTerm
    /\ \E k \in DOMAIN dInput.pages : dInput.pages[k].kind = "blank"
    /\ \E k \in DOMAIN dInput.pages : dInput.pages[k].kind = "text"

NameAlwaysDerived ==
    mPc # "idle" =>
        /\ mPc # "raised"
        /\ mOut.document_name = splitext0(mKey[Len(mKey)])

\* C27: a document of N pages under root/jurisdiction/type/category/file
\* with a root of the country layout gives N chunks; the n-th is stored under
\* the folders and the base name with "_page_n.pdf", and its metadata are
\* exactly the root, the country, the type, the category, the name, n, N and
\* the address of the chunk in the chunk bucket.
CountryLayoutChunks ==
    mImpl = "ec2" /\ mPc = "chunked" /\ Len(mKey) = 5
    /\ mKey[1] \in COUNTRY_FOLDERS /\ mKey[5] = "notice.pdf" =>
        \A n \in DOMAIN mChunks :
            LET ck == [bucket |-> "CHUNKED_BUCKET",
                       dir |-> SubSeq(mKey, 1, 4), name |-> "notice",
                       page |-> n]
            IN  /\ mChunks[n].key = ck
                /\ mChunks[n].metadata =
                      [NoMeta EXCEPT
                          !.standard_type = mKey[1], !.country = mKey[2],
                          !.document_type = mKey[3],
                          !.document_category = mKey[4],
                          !.document_name = "notice", !.page_number = n,
                          !.total_pages = Len(mChunks), !.chunk_s3_uri = ck]

\* A run of the parallel worker is inside the sync of its file.
Syncing(m, i) == qVariant = "parallel" /\ qRun[m][i] = "syncing"

\* C29: while the run of one file is waiting for the sync lock or polling
\* its ingestion job, the worker loop can receive the next batch of queue
\* messages.
SyncKeepsReceiving ==
    \A m \in Msgs, i \in 1 .. MaxRecords :
        Syncing(m, i) => ENABLED (\E v \in QueueVariants, n \in Msgs : Receive(v, n))

\* The run of Orchestrator.process_single_file ended in its download loop
\* because the source object was not there at the last attempt.
SourceMissing == RunOver("orchestrator") /\ pipe.why = "notfound"

\* C31: a run that ends because the source object is missing reports an
\* outcome other than False, the outcome of a failed file.
MissingIsSoftSkip == SourceMissing => pipe.result # "false"

\* C32: the download loop of Orchestrator.process_single_file calls
\* get_object at most max_retries times, no call follows one that returned
\* bytes, a run goes past the download only with bytes, and a run whose
\* max_retries calls gave no bytes returns False with no stage done.
DownloadBounded ==
    pipe.variant = "orchestrator" =>
        /\ Len(pipe.gets) <= max_retries
        /\ \A k \in DOMAIN pipe.gets : pipe.gets[k] = "bytes" => k = Len(pipe.gets)
        /\ pipe.log # << >> =>
              pipe.gets # << >> /\ pipe.gets[Len(pipe.gets)] = "bytes"
        /\ pipe.pc \notin {"idle", "download"} /\ pipe.log = << >> =>
              /\ Len(pipe.gets) = max_retries
              /\ pipe.pc = "returned" /\ pipe.result = "false"

\* C32 witness: the third call of get_object returned bytes after a None and
\* an exception, and the run went on to its later stages.
DownloadBoundedWitness ==
    /\ pipe.variant = "orchestrator"
    /\ pipe.gets = <<"none", "raise", "bytes">>
    /\ pipe.pc = "watermark"

\* The chunks of a list that are the chunk of page n.
ChunksOfPage(chunks, n) == {k \in DOMAIN chunks : chunks[k].page_number = n}

FailuresOnlyWithTokenError ==
    /\ ~WaitOver => wFailed = << >>
    /\ wFailed # << >> => wPc = "returned" /\ wOut.status = "FAILED_TOKEN_ERROR"
    /\ wPc = "returned" /\ wOut.status = "COMPLETE" => wOut.failed_files = << >>
    /\ WaitOver => wOut.status \notin {"TIMEOUT_TOKEN_ERROR", "ERROR_DURING_WAIT"}
    /\ WaitOver /\ wSeen[Len(wSeen)] = "error" => wPc = "raised"
    /\ WaitOver /\ wSeen[Len(wSeen)] \in {"STARTING", "IN_PROGRESS"} =>
          wPc = "raised" /\ wAttempt = max_attempts

\* C34 witness: the job was in progress at every attempt and the wait
\* raised its timeout.
FailuresOnlyWithTokenErrorWitness ==
    /\ wPc = "raised"
    /\ wAttempt = max_attempts
    /\ wSeen[Len(wSeen)] = "IN_PROGRESS"

\* C35: the lock file a caller unlinks, in its stale reclaim or in its
\* release, is not a file on which another caller holds the flock.
UnlinkSparesHolders ==
    [][path # NoFile /\ path' = NoFile =>
          \A c \in Callers :
              pc'[c] # pc[c] => flockOwner[path] \in {NoCaller, c}]_vars

\* C36: a run of process_single_file that called the knowledge-base sync of
\* its folder has uploaded at least one chunk before.
SyncNeedsUpload ==
    pipe.variant \in {"orchestrator", "instrumented"} =>
        \A k \in LogAt("sync") : \E i \in LogAt("upload") : i < k

\* C37: in the instrumented pipeline the source bucket holds the uploaded
\* document under its original key or under its cleaned key, whatever the
\* rename step has done.
RenameKeepsDocument ==
    s3Variant = "instrumented" =>
        s3Key \in s3Source \/ clean_filename(s3Key) \in s3Source

\* C38: once the document is rebuilt, a flagged page whose recognition
\* returned text, whatever the text, is a page carrying that text; only a
\* page whose recognition raised is an "OCR Failed" page.
RecognizedTextKept ==
    dPc = "chunking" /\ Len(dStream) = Len(dOcrIn) =>
        \A k \in pages_to_ocr(dOcrIn) :
            (ResultsOf(k) # {} /\ \A r \in ResultsOf(k) : r.text # "Error on page")
                => dStream[k].form = "ocr"

\* The taxonomy fields of a metadata record: every field of a branch but
\* standard_type (the root) and document_name.
TaxonomyFields ==
    {"country", "complexity", "Standard_type", "document_type",
     "document_category", "document_sub_category", "State", "State_category",
     "year", "volume"}

\* C39: no taxonomy field is taken from the last segment of the key: for a
\* key of folders that ends in the file name "notice.pdf", no taxonomy field
\* of the derived metadata is that file name.
NoFieldFromFilename ==
    /\ mImpl = "ec2" /\ mPc \in {"derived", "chunked"}
    /\ Len(mKey) > 1 /\ mKey[Len(mKey)] = "notice.pdf"
    => \A f \in TaxonomyFields : mOut[f] # "notice.pdf"

====
